---- MODULE Spec2Model ----
(***************************************************************************)
(* A model of the natural-language-to-SQL agent:                           *)
(*   - SnowflakeNLPAgent (src/src/agent/nlp_agent.py): clean_sql_response, *)
(*     _handle_metadata_query, process_query, _handle_sql_error, log_step; *)
(*   - SchemaObfuscator (src/src/utils/schema_obfuscator.py): the static   *)
(*     mappings, translate_to_real_sql, translate_to_obfuscated_sql.       *)
(* Python strings are TLA+ strings, handled character by character.  A     *)
(* TLA+ string literal cannot hold a backtick, so the backtick character   *)
(* is written "~" throughout (BT); no modelled text uses "~" otherwise.    *)
(***************************************************************************)
EXTENDS Integers, Sequences, FiniteSets, TLC

(***************************************************************************)
(* Python string primitives.                                               *)
(***************************************************************************)
BT == "~"
FENCE == BT \o BT \o BT

UpperMap ==
  [a |-> "A", b |-> "B", c |-> "C", d |-> "D", e |-> "E", f |-> "F", g |-> "G",
   h |-> "H", i |-> "I", j |-> "J", k |-> "K", l |-> "L", m |-> "M", n |-> "N",
   o |-> "O", p |-> "P", q |-> "Q", r |-> "R", s |-> "S", t |-> "T", u |-> "U",
   v |-> "V", w |-> "W", x |-> "X", y |-> "Y", z |-> "Z"]

LowerMap ==
  [A |-> "a", B |-> "b", C |-> "c", D |-> "d", E |-> "e", F |-> "f", G |-> "g",
   H |-> "h", I |-> "i", J |-> "j", K |-> "k", L |-> "l", M |-> "m", N |-> "n",
   O |-> "o", P |-> "p", Q |-> "q", R |-> "r", S |-> "s", T |-> "t", U |-> "u",
   V |-> "v", W |-> "w", X |-> "x", Y |-> "y", Z |-> "z"]

Digits == {"0", "1", "2", "3", "4", "5", "6", "7", "8", "9"}

\* s[i] as a one-character string
Ch(s, i) == SubSeq(s, i, i)

Min(S) == CHOOSE x \in S : \A y \in S : x <= y
Max(S) == CHOOSE x \in S : \A y \in S : x >= y

\* ''.join(F(i) for i in range(lo, hi + 1)), by halving the range so that
\* the evaluation depth stays logarithmic in the length of the text
RECURSIVE Cat(_, _, _)
Cat(F(_), lo, hi) ==
  IF lo > hi THEN ""
  ELSE IF lo = hi THEN F(lo)
  ELSE LET mid == (lo + hi) \div 2
       IN  Cat(F, lo, mid) \o Cat(F, mid + 1, hi)

UpperChar(c) == IF c \in DOMAIN UpperMap THEN UpperMap[c] ELSE c
LowerChar(c) == IF c \in DOMAIN LowerMap THEN LowerMap[c] ELSE c

\* str.upper(), str.lower()
Upper(s) == Cat(LAMBDA i : UpperChar(Ch(s, i)), 1, Len(s))
Lower(s) == Cat(LAMBDA i : LowerChar(Ch(s, i)), 1, Len(s))

\* the characters str.strip() and the regex class \s remove
IsSpace(c) == c \in {" ", "\n", "\t", "\r"}

\* the regex class \w
IsWordChar(c) == c \in DOMAIN UpperMap \/ c \in DOMAIN LowerMap \/ c \in Digits \/ c = "_"

\* s without the leading and trailing characters that satisfy Drop
StripOf(s, Drop(_)) ==
  LET keep == {i \in 1..Len(s) : ~Drop(Ch(s, i))}
  IN  IF keep = {} THEN "" ELSE SubSeq(s, Min(keep), Max(keep))

LStrip(s) ==
  LET keep == {i \in 1..Len(s) : ~IsSpace(Ch(s, i))}
  IN  IF keep = {} THEN "" ELSE SubSeq(s, Min(keep), Len(s))

\* str.strip()
Strip(s) == StripOf(s, IsSpace)

\* str.strip('`')
StripBT(s) == StripOf(s, LAMBDA c : c = BT)

\* s[i:i + len(p)] == p, with i counted from 1
OccursAt(s, i, p) == i >= 1 /\ i + Len(p) - 1 <= Len(s) /\ SubSeq(s, i, i + Len(p) - 1) = p

\* str.startswith(p), str.endswith(p), p in s
StartsWith(s, p) == Len(s) >= Len(p) /\ SubSeq(s, 1, Len(p)) = p
EndsWith(s, p) == Len(s) >= Len(p) /\ SubSeq(s, Len(s) - Len(p) + 1, Len(s)) = p
Contains(s, p) == \E i \in 1..(Len(s) - Len(p) + 1) : SubSeq(s, i, i + Len(p) - 1) = p

\* str.find(p) counted from 1, 0 when absent
Find(s, p) ==
  LET at == {i \in 1..(Len(s) - Len(p) + 1) : SubSeq(s, i, i + Len(p) - 1) = p}
  IN  IF at = {} THEN 0 ELSE Min(at)

\* str.split('\n')
RECURSIVE SplitLines(_)
SplitLines(s) ==
  LET i == Find(s, "\n")
  IN  IF i = 0 THEN <<s>>
      ELSE <<SubSeq(s, 1, i - 1)>> \o SplitLines(SubSeq(s, i + 1, Len(s)))

\* ' '.join(lines)
RECURSIVE JoinSpace(_)
JoinSpace(lines) ==
  IF lines = <<>> THEN ""
  ELSE IF Len(lines) = 1 THEN lines[1]
  ELSE lines[1] \o " " \o JoinSpace(Tail(lines))

\* re.sub(r'\s+', '\n', result): every run of whitespace leaves a newline
CollapseToNewlines(s) ==
  Cat(LAMBDA i : IF ~IsSpace(Ch(s, i)) THEN Ch(s, i)
                 ELSE IF i > 1 /\ IsSpace(Ch(s, i - 1)) THEN "" ELSE "\n",
      1, Len(s))

\* re.sub(r'\s+', ' ', s): a run of whitespace leaves one space, at its start
CollapseSpaces(s) ==
  Cat(LAMBDA i : IF ~IsSpace(Ch(s, i)) THEN Ch(s, i)
                 ELSE IF i > 1 /\ IsSpace(Ch(s, i - 1)) THEN "" ELSE " ",
      1, Len(s))

\* str.replace(old, new): every non-overlapping occurrence, left to right
RECURSIVE ReplaceAll(_, _, _)
ReplaceAll(s, old, new) ==
  LET i == Find(s, old)
  IN  IF i = 0 THEN s
      ELSE SubSeq(s, 1, i - 1) \o new
             \o ReplaceAll(SubSeq(s, i + Len(old), Len(s)), old, new)

(***************************************************************************)
(* SnowflakeNLPAgent.clean_sql_response                                    *)
(***************************************************************************)
\* re.search(r'^```\s*\n(.*?)\n```$', cleaned, DOTALL): an opening fence, then
\* only whitespace up to a newline, the content, and a newline and the
\* closing fence at the very end of the text
MultilineFenceMatches(cleaned) ==
  /\ StartsWith(cleaned, FENCE)
  /\ EndsWith(cleaned, "\n" \o FENCE)
  /\ \E i \in 4..(Len(cleaned) - 4) :
       /\ Ch(cleaned, i) = "\n"
       /\ \A j \in 4..(i - 1) : IsSpace(Ch(cleaned, j))

\* match.group(1).strip() of the multiline pattern: whatever \s*\n takes
\* is whitespace, which the strip removes as well
MultilineFenceContent(cleaned) == Strip(SubSeq(cleaned, 4, Len(cleaned) - 4))

\* re.search(r'^```(?:sql)?\s*\n?(.*?)\n?```$', cleaned, DOTALL | IGNORECASE)
InlineFenceMatches(cleaned) ==
  /\ Len(cleaned) >= 6
  /\ StartsWith(cleaned, FENCE)
  /\ EndsWith(cleaned, FENCE)

\* match.group(1).strip() of the inline pattern: the optional tag "sql" is
\* taken when it follows the opening fence (and leaves room for the closing one)
InlineFenceContent(cleaned) ==
  LET tagged == Len(cleaned) >= 9 /\ Upper(SubSeq(cleaned, 4, 6)) = "SQL"
      from   == IF tagged THEN 7 ELSE 4
  IN  Strip(SubSeq(cleaned, from, Len(cleaned) - 3))

\* STEP 1 and STEP 2: the multiline pattern first, the inline pattern only
\* when the first did not match
StripFences(cleaned) ==
  IF MultilineFenceMatches(cleaned) THEN MultilineFenceContent(cleaned)
  ELSE IF InlineFenceMatches(cleaned) THEN InlineFenceContent(cleaned)
  ELSE cleaned

\* STEP 3: while cleaned.startswith('`') or cleaned.endswith('`'):
\*             cleaned = cleaned.strip('`').strip()
RECURSIVE StripLooseBackticks(_)
StripLooseBackticks(cleaned) ==
  IF StartsWith(cleaned, BT) \/ EndsWith(cleaned, BT)
  THEN StripLooseBackticks(Strip(StripBT(cleaned)))
  ELSE cleaned

\* STEP 4, one line: line = line.strip(); while line.startswith('`'):
\*                       line = line[1:].strip()
RECURSIVE StripLineStart(_)
StripLineStart(line) ==
  IF StartsWith(line, BT) THEN StripLineStart(Strip(Tail(line))) ELSE line

\* STEP 4: the stripped lines that are not empty
RECURSIVE CleanLines(_)
CleanLines(lines) ==
  IF lines = <<>> THEN <<>>
  ELSE LET line == StripLineStart(Strip(lines[1]))
       IN  (IF line # "" THEN <<line>> ELSE <<>>) \o CleanLines(Tail(lines))

LineStartKeywords ==
  {"SELECT", "INSERT", "UPDATE", "DELETE", "WITH", "FROM", "WHERE", "GROUP",
   "ORDER", "HAVING", "LIMIT", "SHOW", "DESCRIBE", "EXPLAIN"}

LineClauseKeywords ==
  {"FROM", "WHERE", "AND", "OR", "ORDER BY", "GROUP BY", "HAVING",
   "INNER JOIN", "LEFT JOIN", "RIGHT JOIN"}

\* STEP 5, one line: the test that keeps a line
LooksLikeSql(line) ==
  LET up == Upper(line)
  IN  \/ \E kw \in LineStartKeywords : StartsWith(up, kw)
      \/ \E kw \in LineClauseKeywords : Contains(up, kw)

\* STEP 5
RECURSIVE FilterSqlLines(_)
FilterSqlLines(lines) ==
  IF lines = <<>> THEN <<>>
  ELSE (IF LooksLikeSql(lines[1]) THEN <<lines[1]>> ELSE <<>>)
         \o FilterSqlLines(Tail(lines))

\* clean_sql_response(sql_text) for a str argument
clean_sql_response(sql_text) ==
  LET cleaned   == StripLooseBackticks(StripFences(Strip(sql_text)))
      sql_lines == FilterSqlLines(CleanLines(SplitLines(cleaned)))
  IN  CollapseSpaces(Strip(JoinSpace(sql_lines)))

(***************************************************************************)
(* SchemaObfuscator: the static mappings, in the order the dicts hold them *)
(* (real name, obfuscated name).                                           *)
(***************************************************************************)
TABLE_MAPPING ==
  <<
    <<"properties", "real_estate_items">>,
    <<"locations", "geographic_areas">>,
    <<"agents", "sales_representatives">>,
    <<"transactions", "commercial_events">>,
    <<"owners", "property_holders">>
  >>

COLUMN_MAPPING ==
  <<
    <<"properties.property_id", "real_estate_items.item_id">>,
    <<"properties.location_id", "real_estate_items.area_ref">>,
    <<"properties.price", "real_estate_items.monetary_value">>,
    <<"properties.bedrooms", "real_estate_items.sleeping_rooms">>,
    <<"properties.bathrooms", "real_estate_items.bath_facilities">>,
    <<"properties.sqft", "real_estate_items.floor_area">>,
    <<"properties.property_type", "real_estate_items.item_category">>,
    <<"properties.status", "real_estate_items.current_state">>,
    <<"properties.owner_id", "real_estate_items.holder_ref">>,
    <<"properties.listing_agent_id", "real_estate_items.rep_ref">>,
    <<"locations.location_id", "geographic_areas.area_id">>,
    <<"locations.city", "geographic_areas.city_name">>,
    <<"locations.state", "geographic_areas.state_name">>,
    <<"locations.county", "geographic_areas.county_name">>,
    <<"locations.zipcode", "geographic_areas.postal_code">>,
    <<"locations.population", "geographic_areas.resident_count">>,
    <<"locations.median_income", "geographic_areas.income_median">>,
    <<"locations.avg_sale_price", "geographic_areas.price_average">>,
    <<"agents.agent_id", "sales_representatives.rep_id">>,
    <<"agents.first_name", "sales_representatives.first_name">>,
    <<"agents.last_name", "sales_representatives.last_name">>,
    <<"agents.agency", "sales_representatives.company_name">>,
    <<"agents.transaction_count", "sales_representatives.deal_count">>,
    <<"agents.avg_sale_price", "sales_representatives.average_deal_value">>,
    <<"agents.commission_rate", "sales_representatives.fee_percentage">>,
    <<"transactions.transaction_id", "commercial_events.event_id">>,
    <<"transactions.property_id", "commercial_events.item_ref">>,
    <<"transactions.agent_id", "commercial_events.rep_ref">>,
    <<"transactions.sale_date", "commercial_events.completion_date">>,
    <<"transactions.sale_price", "commercial_events.final_amount">>,
    <<"transactions.days_on_market", "commercial_events.market_duration">>,
    <<"owners.owner_id", "property_holders.holder_id">>,
    <<"owners.first_name", "property_holders.first_name">>,
    <<"owners.last_name", "property_holders.last_name">>,
    <<"owners.num_properties_owned", "property_holders.item_count">>,
    <<"owners.total_portfolio_value", "property_holders.portfolio_worth">>,
    <<"owners.investor_flag", "property_holders.investor_status">>
  >>

\* a mapping that is reversed without swapping its pairs
ReversedUnswapped(mapping) == mapping

\* {v: k for k, v in mapping.items()}: the pairs swapped; a value met again
\* keeps the place of its first entry and takes the key of its last
Reversed(mapping) ==
  LET firsts  == {i \in 1..Len(mapping) : \A j \in 1..(i - 1) : mapping[j][2] # mapping[i][2]}
      Nth(k)  == CHOOSE i \in firsts : Cardinality({j \in firsts : j < i}) = k - 1
      Last(i) == Max({j \in 1..Len(mapping) : mapping[j][2] = mapping[i][2]})
  IN  [k \in 1..Cardinality(firsts) |-> <<mapping[Nth(k)][2], mapping[Last(Nth(k))][1]>>]

REVERSE_TABLE_MAPPING == Reversed(TABLE_MAPPING)
REVERSE_COLUMN_MAPPING == Reversed(COLUMN_MAPPING)

\* sorted(items, key=lambda x: len(x[0]), reverse=True): longest key first,
\* entries with keys of equal length in their original order (the sort is
\* stable): the place of an entry is one more than the number of entries
\* that go before it
SortedByLen(items) ==
  LET Before(j, i) == \/ Len(items[j][1]) > Len(items[i][1])
                      \/ Len(items[j][1]) = Len(items[i][1]) /\ j < i
      Place(i)     == 1 + Cardinality({j \in 1..Len(items) : Before(j, i)})
  IN  [k \in 1..Len(items) |-> items[CHOOSE i \in 1..Len(items) : Place(i) = k]]

\* re.sub(r'\b' + re.escape(word) + r'\b', repl, s, flags=re.IGNORECASE): a
\* match is the word in any case with no word character right before it and
\* none right after it (the word begins and ends with a word character, so
\* two matches never overlap)
ReSubWord(s, word, repl) ==
  LET n       == Len(word)
      low     == Lower(s)
      lowword == Lower(word)
      matches == {j \in 1..(Len(s) - n + 1) :
                    /\ SubSeq(low, j, j + n - 1) = lowword
                    /\ (j = 1 \/ ~IsWordChar(Ch(s, j - 1)))
                    /\ (j + n - 1 = Len(s) \/ ~IsWordChar(Ch(s, j + n)))}
  IN  IF matches = {} THEN s
      ELSE Cat(LAMBDA i : IF i \in matches THEN repl
                          ELSE IF \E j \in matches : j < i /\ i <= j + n - 1 THEN ""
                          ELSE Ch(s, i),
               1, Len(s))

\* qualified.split('.')[1]
ColumnPart(qualified) ==
  LET rest == SubSeq(qualified, Find(qualified, ".") + 1, Len(qualified))
  IN  IF Contains(rest, ".") THEN SubSeq(rest, 1, Find(rest, ".") - 1) ELSE rest

\* one pass of a table loop (both translators): the whole-word replacement
ReplaceTable(sql, pair) == ReSubWord(sql, pair[1], pair[2])

\* one pass of a column loop (both translators): the qualified name by plain
\* str.replace, then the bare column name as a whole word
ReplaceQualified(sql, pair) == ReplaceAll(sql, pair[1], pair[2])

ReplaceBare(sql, pair) ==
  IF Contains(pair[1], ".")
  THEN ReSubWord(sql, ColumnPart(pair[1]), ColumnPart(pair[2]))
  ELSE sql

ReplaceColumn(sql, pair) == ReplaceBare(ReplaceQualified(sql, pair), pair)

\* for ... in replacements[lo..hi]: the passes lo..hi of a table loop and of
\* a column loop, in order.  The range is halved, and the text a pass works
\* on is computed before the pass starts (it is bound as the element of a
\* singleton set), which keeps the evaluation flat.
RECURSIVE ReplaceTablesIn(_, _, _, _)
ReplaceTablesIn(sql, replacements, lo, hi) ==
  IF lo > hi THEN sql
  ELSE IF lo = hi THEN ReplaceTable(sql, replacements[lo])
  ELSE LET mid == (lo + hi) \div 2
       IN  CHOOSE result \in {ReplaceTablesIn(half, replacements, mid + 1, hi) :
                                half \in {ReplaceTablesIn(sql, replacements, lo, mid)}} : TRUE

RECURSIVE ReplaceColumnsIn(_, _, _, _)
ReplaceColumnsIn(sql, replacements, lo, hi) ==
  IF lo > hi THEN sql
  ELSE IF lo = hi THEN ReplaceColumn(sql, replacements[lo])
  ELSE LET mid == (lo + hi) \div 2
       IN  CHOOSE result \in {ReplaceColumnsIn(half, replacements, mid + 1, hi) :
                                half \in {ReplaceColumnsIn(sql, replacements, lo, mid)}} : TRUE

ReplaceTables(sql, replacements) == ReplaceTablesIn(sql, replacements, 1, Len(replacements))
ReplaceColumns(sql, replacements) == ReplaceColumnsIn(sql, replacements, 1, Len(replacements))

\* translate_to_real_sql when nothing raises: tables first, then columns
translate_to_real_sql(obfuscated_sql) ==
  IF obfuscated_sql = "" THEN obfuscated_sql
  ELSE CHOOSE real_sql \in
         {ReplaceColumns(t, SortedByLen(REVERSE_COLUMN_MAPPING)) :
            t \in {ReplaceTables(obfuscated_sql, SortedByLen(REVERSE_TABLE_MAPPING))}} : TRUE

\* translate_to_obfuscated_sql when nothing raises: columns first, then tables
translate_to_obfuscated_sql(real_sql) ==
  IF real_sql = "" THEN real_sql
  ELSE CHOOSE obfuscated_sql \in
         {ReplaceTables(c, SortedByLen(TABLE_MAPPING)) :
            c \in {ReplaceColumns(real_sql, SortedByLen(COLUMN_MAPPING))}} : TRUE

(***************************************************************************)
(* Python values that cross the agent's boundaries: a value is its type    *)
(* and, for a str, its text; a list of rows is held by its repr.           *)
(***************************************************************************)
None == [t |-> "NoneType", v |-> ""]
Str(text) == [t |-> "str", v |-> text]
List(repr) == [t |-> "list", v |-> repr]

\* bool(value)
Truthy(value) ==
  CASE value.t = "NoneType" -> FALSE
    [] value.t = "str"      -> value.v # ""
    [] OTHER                -> value.v # "[]"

\* str(n) for a natural number n
RECURSIVE IntStr(_)
IntStr(n) ==
  IF n < 10 THEN Ch("0123456789", n + 1)
  ELSE IntStr(n \div 10) \o Ch("0123456789", (n % 10) + 1)

\* len(value): the characters of a str, the rows (tuples) of a list
PyLen(value) ==
  IF value.t = "str" THEN Len(value.v)
  ELSE Cardinality({i \in 1..Len(value.v) : Ch(value.v, i) = "("})

\* repr(text) of a str: single quotes, or double quotes when the text holds
\* a single quote and no double quote; a newline is written \n
PyReprStr(text) ==
  LET body == ReplaceAll(ReplaceAll(text, "\\", "\\\\"), "\n", "\\n")
  IN  IF Contains(text, "'") /\ ~Contains(text, "\"")
      THEN "\"" \o body \o "\""
      ELSE "'" \o ReplaceAll(body, "'", "\\'") \o "'"

\* repr(value), str(value)
PyRepr(value) ==
  CASE value.t = "NoneType" -> "None"
    [] value.t = "str"      -> PyReprStr(value.v)
    [] OTHER                -> value.v

PyStr(value) == IF value.t = "str" THEN value.v ELSE PyRepr(value)

(***************************************************************************)
(* A step of result["intermediate_steps"]: a dict, held as the sequence of *)
(* its (key, value) items, or another object, held by its str().           *)
(***************************************************************************)
DictStep(items) == [is_dict |-> TRUE, items |-> items, text |-> ""]
OtherStep(text) == [is_dict |-> FALSE, items |-> <<>>, text |-> text]

\* key in step
HasKey(step, key) == \E i \in 1..Len(step.items) : step.items[i][1] = key

\* step[key], and step.get(key) (None when the key is absent)
Get(step, key) ==
  IF HasKey(step, key)
  THEN step.items[CHOOSE i \in 1..Len(step.items) : step.items[i][1] = key][2]
  ELSE None

\* str(step)
RECURSIVE ItemsRepr(_)
ItemsRepr(items) ==
  IF items = <<>> THEN ""
  ELSE PyReprStr(items[1][1]) \o ": " \o PyRepr(items[1][2])
         \o (IF Len(items) > 1 THEN ", " ELSE "") \o ItemsRepr(Tail(items))

StepStr(step) == IF step.is_dict THEN "{" \o ItemsRepr(step.items) \o "}" ELSE step.text

(***************************************************************************)
(* SnowflakeNLPAgent._handle_sql_error.  The messages are the source's     *)
(* without their leading emoji.                                            *)
(***************************************************************************)
\* re.search(r"Object '([^']+)' does not exist", error_str): the positions
\* where the pattern matches, and group(1) of the first of them
ObjectNameEnd(error_str, i) ==
  LET quotes == {j \in (i + 8)..Len(error_str) : Ch(error_str, j) = "'"}
  IN  IF quotes = {} THEN 0 ELSE Min(quotes)

ObjectMatches(error_str) ==
  {i \in 1..Len(error_str) :
     /\ OccursAt(error_str, i, "Object '")
     /\ ObjectNameEnd(error_str, i) > i + 8
     /\ OccursAt(error_str, ObjectNameEnd(error_str, i), "' does not exist")}

ObjectName(error_str) ==
  LET i == Min(ObjectMatches(error_str))
  IN  SubSeq(error_str, i + 8, ObjectNameEnd(error_str, i) - 1)

\* the chain with its first two tests exchanged: the compilation error is
\* tested before the missing object
UserMessageCompilationFirst(error_str) ==
  IF Contains(error_str, "SQL compilation error")
  THEN "There was an error in the SQL query. The database structure might be different than expected."
  ELSE IF Contains(error_str, "does not exist") \/ Contains(error_str, "not authorized")
  THEN IF ObjectMatches(error_str) # {}
       THEN "The table '" \o Lower(ObjectName(error_str))
              \o "' doesn't exist in your database or you don't have permission to access it."
       ELSE "The requested table doesn't exist in your database or you don't have permission to access it."
  ELSE IF Contains(Lower(error_str), "connection")
  THEN "Database connection error. Please check your connection settings."
  ELSE IF Contains(Lower(error_str), "timeout")
  THEN "The query took too long to execute. Try a simpler query or contact your administrator."
  ELSE "Database error: " \o SubSeq(error_str, 1, IF Len(error_str) > 100 THEN 100 ELSE Len(error_str))
         \o (IF Len(error_str) > 100 THEN "..." ELSE "")

\* the user message: the first pattern of the if/elif chain that matches
UserMessage(error_str) ==
  IF Contains(error_str, "does not exist") \/ Contains(error_str, "not authorized")
  THEN IF ObjectMatches(error_str) # {}
       THEN "The table '" \o Lower(ObjectName(error_str))
              \o "' doesn't exist in your database or you don't have permission to access it."
       ELSE "The requested table doesn't exist in your database or you don't have permission to access it."
  ELSE IF Contains(error_str, "SQL compilation error")
  THEN "There was an error in the SQL query. The database structure might be different than expected."
  ELSE IF Contains(Lower(error_str), "connection")
  THEN "Database connection error. Please check your connection settings."
  ELSE IF Contains(Lower(error_str), "timeout")
  THEN "The query took too long to execute. Try a simpler query or contact your administrator."
  ELSE "Database error: " \o SubSeq(error_str, 1, IF Len(error_str) > 100 THEN 100 ELSE Len(error_str))
         \o (IF Len(error_str) > 100 THEN "..." ELSE "")

\* the record _handle_sql_error(error, sql_query) returns
handle_sql_error(error_str, sql_query) ==
  [success         |-> FALSE,
   error           |-> UserMessage(error_str),
   technical_error |-> error_str,
   sql_query       |-> sql_query,
   query_type      |-> "data",
   user_friendly   |-> TRUE]

(***************************************************************************)
(* SnowflakeNLPAgent._handle_metadata_query: detection and the fixed query *)
(***************************************************************************)
table_queries ==
  {"show tables", "show me tables", "show all tables", "show me all tables",
   "list tables", "list all tables", "what tables", "which tables",
   "display tables", "get tables", "tables list"}

\* a detection that asks the question to be one of the phrases
IsTableListingWhole(user_question) ==
  LET user_lower == Strip(Lower(user_question))
  IN  user_lower \in table_queries

IsTableListing(user_question) ==
  LET user_lower == Strip(Lower(user_question))
  IN  \E query \in table_queries : Contains(user_lower, query)

clean_sql ==
  "SELECT TABLE_NAME, TABLE_TYPE FROM INFORMATION_SCHEMA.TABLES WHERE TABLE_SCHEMA = CURRENT_SCHEMA() ORDER BY TABLE_NAME"

(***************************************************************************)
(* The environment of process_query: the questions asked, what the SQL     *)
(* chain (the LLM) may answer, and what the executor (db.run) may do.      *)
(***************************************************************************)
MaxSteps == 2

Questions ==
  {"Show Tables", "what tables are there", "  LIST ALL TABLES ", "show me the tables",
   "list all properties", "how many properties are there"}

PlainSelect    == "SELECT city FROM locations"
FencedSelect   == FENCE \o "sql\nSELECT city FROM locations\n" \o FENCE
DeleteStmt     == "DELETE FROM locations"
ShowTablesHint == "Run SHOW TABLES"
Refusal        == "I can't do that"
ShowingText    == "Showing tables"
RowsText       == "[('Austin',)]"
KeywordRows    == "[('Wheretown',)]"

Steps ==
  {DictStep(<< <<"sql_cmd", Str(PlainSelect)>> >>),
   DictStep(<< <<"sql_cmd", Str(FencedSelect)>>, <<"sql_result", Str(RowsText)>> >>),
   DictStep(<< <<"query", Str(DeleteStmt)>>, <<"result", Str(KeywordRows)>> >>),
   DictStep(<< <<"sql_cmd", Str(ShowTablesHint)>>, <<"sql_result", Str("")>> >>),
   DictStep(<< <<"input", Str("how many properties are there\nSQLQuery:")>> >>),
   DictStep(<< <<"sql", List("[1]")>> >>),
   OtherStep(Refusal)}

FinalAnswers == {None, Str(PlainSelect), Str(Refusal), Str(ShowingText), Str(RowsText)}

\* what sql_chain.invoke returns: a dict with or without "intermediate_steps"
ChainResults ==
  {[has_steps |-> TRUE, intermediate_steps |-> steps, result |-> answer] :
     steps \in UNION {[1..n -> Steps] : n \in 0..MaxSteps}, answer \in FinalAnswers}
  \cup {[has_steps |-> FALSE, intermediate_steps |-> <<>>, result |-> answer] :
          answer \in FinalAnswers}

NoChainResult == [has_steps |-> FALSE, intermediate_steps |-> <<>>, result |-> None]

ChainErrors == {"LLM provider unavailable"}

\* what db.run does with a statement: it returns rows (as text or as a
\* list), or raises
ExecResults == {Str(RowsText), Str(KeywordRows), Str(""), List("[(42,)]")}

\* an error text of more than 100 characters that fits no pattern
LongError ==
  "Numeric value 'N/A' is not recognized while converting column PRICE of table PROPERTIES to NUMBER(38,2) in row 17"

ExecErrors ==
  {"SQL compilation error: Object 'PROPERTY_HOLDERS' does not exist or not authorized.",
   "SQL compilation error: syntax error line 1 at position 7",
   "Connection reset by peer",
   "Connection timeout",
   "Statement reached its statement or warehouse timeout",
   "Division by zero",
   LongError}

ExecOutcomes ==
  {[raised |-> FALSE, value |-> value, error |-> ""] : value \in ExecResults}
  \cup {[raised |-> TRUE, value |-> None, error |-> error] : error \in ExecErrors}

(***************************************************************************)
(* streamlit_app.py: the values of a raw result.  A value is a record of   *)
(* its type name t, its text v (the digits of an int, the repr of a float, *)
(* the text of a Decimal or of a str) and its items (of a tuple or a list, *)
(* in order).                                                              *)
(***************************************************************************)
PyNone == [t |-> "NoneType", v |-> "", items |-> <<>>]
PyInt(digits) == [t |-> "int", v |-> digits, items |-> <<>>]
PyDecimal(text) == [t |-> "Decimal", v |-> text, items |-> <<>>]
PyText(text) == [t |-> "str", v |-> text, items |-> <<>>]
PyBool(b) == [t |-> "bool", v |-> IF b THEN "True" ELSE "False", items |-> <<>>]
PyTuple(items) == [t |-> "tuple", v |-> "", items |-> items]
PyList(items) == [t |-> "list", v |-> "", items |-> items]

\* s[i] as a one-character string, "" outside of s
At(s, i) == IF i \in 1..Len(s) THEN Ch(s, i) ELSE ""

\* s[i - 1:j - 1] for 1 <= i, j <= len(s) + 1
Slice(s, i, j) == IF i >= j THEN "" ELSE SubSeq(s, i, j - 1)

\* str.isdigit() for ASCII text
IsDigits(s) == s # "" /\ \A i \in 1..Len(s) : Ch(s, i) \in Digits

\* the digits without their leading zeros
NoLeadingZeros(digits) ==
  LET nz == {i \in 1..Len(digits) : Ch(digits, i) # "0"}
  IN  IF nz = {} THEN "0" ELSE SubSeq(digits, Min(nz), Len(digits))

\* the digits without their trailing zeros, one digit at least
NoTrailingZeros(digits) ==
  LET nz == {i \in 1..Len(digits) : Ch(digits, i) # "0"}
  IN  IF nz = {} THEN "0" ELSE SubSeq(digits, 1, Max(nz))

\* the text is digits, or digits with one point inside or at an end: the
\* unsigned decimal texts float() and int() are given
IsDecimalText(s) ==
  LET points == {i \in 1..Len(s) : Ch(s, i) = "."}
  IN  /\ Cardinality(points) <= 1
      /\ \A i \in 1..Len(s) : Ch(s, i) \in Digits \cup {"."}
      /\ \E i \in 1..Len(s) : Ch(s, i) \in Digits

IntPart(s) ==
  LET p == Find(s, ".")
  IN  NoLeadingZeros(IF p = 0 THEN s ELSE Slice(s, 1, p))

FracPart(s) ==
  LET p == Find(s, ".")
  IN  IF p = 0 THEN "" ELSE Slice(s, p + 1, Len(s) + 1)

\* float(text) for an unsigned decimal text of moderate size, as its repr
PyFloat(text) ==
  [t |-> "float", v |-> IntPart(text) \o "." \o NoTrailingZeros(FracPart(text)), items |-> <<>>]

\* int(digits)
PyIntOf(digits) == PyInt(NoLeadingZeros(digits))

\* the number a text of digits denotes
RECURSIVE NatOf(_)
NatOf(digits) ==
  IF digits = "" THEN 0
  ELSE 10 * NatOf(SubSeq(digits, 1, Len(digits) - 1))
         + (CHOOSE d \in 0..9 : Ch("0123456789", d + 1) = Ch(digits, Len(digits)))

IsNumber(value) == value.t \in {"int", "float", "Decimal"}

\* value > bound for a number and a natural bound
GreaterThan(value, bound) ==
  LET whole == NatOf(IntPart(value.v))
  IN  /\ ~StartsWith(value.v, "-")
      /\ whole > bound \/ (whole = bound /\ NoTrailingZeros(FracPart(value.v)) # "0")

\* the thousands separators of format(n, ','): a comma before every group of
\* three digits counted from the right
Grouped(digits) ==
  Cat(LAMBDA i : (IF i > 1 /\ (Len(digits) - i + 1) % 3 = 0 THEN "," ELSE "") \o Ch(digits, i),
      1, Len(digits))

\* the two decimals of format(x, '.2f') for a fraction of up to two digits
TwoDecimals(frac) == SubSeq(frac \o "00", 1, 2)

\* f"${float(value):,.2f}" for a number
Currency(value) ==
  "$" \o Grouped(IntPart(value.v)) \o "." \o TwoDecimals(FracPart(value.v))

\* f"{count_value:,}": the grouped digits of an int, of a float (its repr)
\* and of a Decimal (its text); a str or None has no such format and the
\* f-string raises (ValueError, TypeError)
CanGroup(value) == IsNumber(value)
GroupedCount(value) ==
  Grouped(IntPart(value.v))
    \o (IF value.t = "int" \/ Find(value.v, ".") = 0 THEN "" ELSE "." \o FracPart(value.v))

\* repr(value) and str(value): a str in quotes, a tuple of one item with its
\* trailing comma
RECURSIVE ValueRepr(_)
ValueRepr(value) ==
  LET Joined(items) ==
        Cat(LAMBDA i : (IF i > 1 THEN ", " ELSE "") \o ValueRepr(items[i]), 1, Len(items))
  IN  CASE value.t = "NoneType" -> "None"
        [] value.t = "str"      -> PyReprStr(value.v)
        [] value.t = "Decimal"  -> "Decimal('" \o value.v \o "')"
        [] value.t = "tuple"    -> "(" \o Joined(value.items)
                                     \o (IF Len(value.items) = 1 THEN "," ELSE "") \o ")"
        [] value.t = "list"     -> "[" \o Joined(value.items) \o "]"
        [] OTHER                -> value.v

ValueStr(value) == IF value.t \in {"str", "Decimal"} THEN value.v ELSE ValueRepr(value)

\* isinstance(value, (tuple, list)) and len(value)
IsRow(value) == value.t \in {"tuple", "list"}
HasLen(value) == value.t \in {"tuple", "list", "str"}
ValueLen(value) == IF value.t = "str" THEN Len(value.v) ELSE Len(value.items)
(***************************************************************************)
(* pandas, as far as format_sql_result_to_dataframe uses it.  A DataFrame  *)
(* is its column labels and its rows, each row the cells in column order;  *)
(* a constructor that raises gives Raised.                                 *)
(***************************************************************************)
NaN == [t |-> "float", v |-> "nan", items |-> <<>>]
Raised == [raised |-> TRUE, columns |-> <<>>, rows |-> <<>>]
Frame(columns, rows) == [raised |-> FALSE, columns |-> columns, rows |-> rows]

\* a dict as the sequence of its (key, value) items: d[key] = value
DictSet(d, key, value) ==
  IF \E i \in 1..Len(d) : d[i][1] = key
  THEN [i \in 1..Len(d) |-> IF d[i][1] = key THEN <<key, value>> ELSE d[i]]
  ELSE Append(d, <<key, value>>)

DictHas(d, key) == \E i \in 1..Len(d) : d[i][1] = key
DictGet(d, key) == d[CHOOSE i \in 1..Len(d) : d[i][1] = key][2]

\* the members of a sequence of texts, each once, in the order they first appear
RECURSIVE Unique(_)
Unique(texts) ==
  IF texts = <<>> THEN <<>>
  ELSE LET front == Unique(SubSeq(texts, 1, Len(texts) - 1))
           last  == texts[Len(texts)]
       IN  IF \E i \in 1..Len(front) : front[i] = last THEN front ELSE Append(front, last)

RECURSIVE Flatten(_)
Flatten(seqs) == IF seqs = <<>> THEN <<>> ELSE seqs[1] \o Flatten(Tail(seqs))

\* pd.DataFrame({name: values, ...}): one column per key; the lists must be
\* of one length
FrameOfDict(d) ==
  IF \E i, j \in 1..Len(d) : Len(d[i][2]) # Len(d[j][2]) THEN Raised
  ELSE Frame([i \in 1..Len(d) |-> d[i][1]],
             [r \in 1..(IF d = <<>> THEN 0 ELSE Len(d[1][2])) |-> [i \in 1..Len(d) |-> d[i][2][r]]])

\* pd.DataFrame(list of dicts): the columns are the keys in the order they
\* first appear, a row has NaN where its dict lacks the key
FrameOfRecords(records) ==
  LET columns == Unique(Flatten([r \in 1..Len(records) |->
                                   [i \in 1..Len(records[r]) |-> records[r][i][1]]]))
  IN  Frame(columns,
            [r \in 1..Len(records) |->
               [i \in 1..Len(columns) |->
                  IF DictHas(records[r], columns[i]) THEN DictGet(records[r], columns[i]) ELSE NaN]])

\* the cells of an item of the data: those of a tuple or list, the item
\* itself otherwise
Cells(item) == IF IsRow(item) THEN item.items ELSE <<item>>

\* a row as it is, without the cells it lacks
UnfilledRow(cells, width) == cells

\* a row filled with None up to the width of the frame
FilledRow(cells, width) ==
  [i \in 1..width |-> IF i <= Len(cells) THEN cells[i] ELSE PyNone]

\* pd.DataFrame(data, columns=column_names) for a list of rows (or of
\* scalars): raises ValueError unless the longest row has as many cells as
\* there are column names; shorter rows are filled with None
FrameOfRows(data, column_names) ==
  LET width == Max({0} \cup {Len(Cells(data[r])) : r \in 1..Len(data)})
  IN  IF width # Len(column_names) THEN Raised
      ELSE Frame(column_names, [r \in 1..Len(data) |-> FilledRow(Cells(data[r]), width)])

\* pd.DataFrame(data) for a list of scalars: one column, labelled 0
FrameOfScalars(data) == Frame(<<"0">>, [r \in 1..Len(data) |-> <<data[r]>>])

\* the cell by its column, its value and the text of the value
Displayed(column, value, val) ==
  IF /\ column \in {"Total_Value", "Price"}
     /\ IsDigits(ReplaceAll(ReplaceAll(val, ".", ""), "-", ""))
     /\ IsDecimalText(val)
     /\ GreaterThan(PyFloat(val), 1000)
  THEN PyText(Currency(PyFloat(val)))
  ELSE value

\* format_data_for_display, one cell: in a column Total_Value or Price a
\* cell whose text is a plain number above 1000 becomes a currency text.
\* (The other columns it formats are the names given to tables of ten
\* columns or more.)
DisplayCell(column, value) == Displayed(column, value, ValueStr(value))

\* fillna('') and astype(str)
FilledText(shown) == IF shown.t = "NoneType" \/ shown = NaN THEN "" ELSE ValueStr(shown)

\* replace(['nan', 'NaN', 'None', 'null', 'NULL'], '')
NoMissing(text) == IF text \in {"nan", "NaN", "None", "null", "NULL"} THEN "" ELSE text

\* clean_dataframe_for_streamlit, one cell: fillna(''), astype(str), and the
\* texts that stand for a missing value replaced by ''
CleanCell(column, value) == PyText(NoMissing(FilledText(DisplayCell(column, value))))

clean_dataframe_for_streamlit(df) ==
  IF df.raised THEN df
  ELSE Frame(df.columns,
             [r \in 1..Len(df.rows) |->
                [i \in 1..Len(df.rows[r]) |-> CleanCell(df.columns[i], df.rows[r][i])]])
(***************************************************************************)
(* parse_sql_result_string.                                                *)
(***************************************************************************)
\* the first place from i on that holds no whitespace
SkipSpaces(s, i) ==
  Min({j \in i..Len(s) : ~IsSpace(Ch(s, j))} \cup {Len(s) + 1})

\* the end of the run of characters that satisfy In, from i on
RunEnd(s, i, In(_)) ==
  Min({j \in i..Len(s) : ~In(Ch(s, j))} \cup {Len(s) + 1})

\* re.sub(DECIMAL_REGEX, r"\1", s) with DECIMAL_REGEX = Decimal\('([^']+)'\)
RECURSIVE SubDecimal(_)
SubDecimal(s) ==
  LET starts == {i \in 1..Len(s) :
                   /\ OccursAt(s, i, "Decimal('")
                   /\ \E j \in (i + 10)..Len(s) :
                        /\ OccursAt(s, j, "')")
                        /\ \A k \in (i + 9)..(j - 1) : Ch(s, k) # "'"}
  IN  IF starts = {} THEN s
      ELSE LET i == Min(starts)
               j == Min({k \in (i + 10)..Len(s) : Ch(s, k) = "'"})
           IN  Slice(s, 1, i) \o Slice(s, i + 9, j) \o SubDecimal(Slice(s, j + 2, Len(s) + 1))

\* re.sub(r"\bNone\b", "'None'", s)
RECURSIVE SubNone(_)
SubNone(s) ==
  LET starts == {i \in 1..Len(s) :
                   /\ OccursAt(s, i, "None")
                   /\ ~IsWordChar(At(s, i - 1))
                   /\ ~IsWordChar(At(s, i + 4))}
  IN  IF starts = {} THEN s
      ELSE LET i == Min(starts)
           IN  Slice(s, 1, i) \o "'None'" \o SubNone(Slice(s, i + 4, Len(s) + 1))

\* the match of (\d+),\s*(\d+),\s*(\d+)\) from i on: the places where the
\* three numbers start and end and where the match ends, or no match
DateArgs(s, i) ==
  LET IsDigit(c) == c \in Digits
      e1 == RunEnd(s, i, IsDigit)
      b2 == SkipSpaces(s, e1 + 1)
      e2 == RunEnd(s, b2, IsDigit)
      b3 == SkipSpaces(s, e2 + 1)
      e3 == RunEnd(s, b3, IsDigit)
  IN  [ok |-> /\ e1 > i /\ At(s, e1) = ","
              /\ e2 > b2 /\ At(s, e2) = ","
              /\ e3 > b3 /\ At(s, e3) = ")",
       text |-> "'" \o Slice(s, i, e1) \o "-" \o Slice(s, b2, e2) \o "-" \o Slice(s, b3, e3) \o "'",
       next |-> e3 + 1]

\* re.sub(r"datetime\.date\((\d+),\s*(\d+),\s*(\d+)\)", r"'\1-\2-\3'", s)
RECURSIVE SubDate(_)
SubDate(s) ==
  LET starts == {i \in 1..Len(s) : OccursAt(s, i, "datetime.date(") /\ DateArgs(s, i + 14).ok}
  IN  IF starts = {} THEN s
      ELSE LET i == Min(starts)
               m == DateArgs(s, i + 14)
           IN  Slice(s, 1, i) \o m.text \o SubDate(Slice(s, m.next, Len(s) + 1))

\* re.sub(r"datetime\.datetime\(([^)]+)\)", datetime_replacer, s)
RECURSIVE SubDatetime(_)
SubDatetime(s) ==
  LET starts == {i \in 1..Len(s) :
                   /\ OccursAt(s, i, "datetime.datetime(")
                   /\ At(s, i + 18) \notin {"", ")"}
                   /\ \E j \in (i + 19)..Len(s) : Ch(s, j) = ")"}
  IN  IF starts = {} THEN s
      ELSE LET i == Min(starts)
               j == Min({k \in (i + 19)..Len(s) : Ch(s, k) = ")"})
           IN  Slice(s, 1, i) \o "'datetime(" \o Slice(s, i + 18, j) \o ")'"
                 \o SubDatetime(Slice(s, j + 1, Len(s) + 1))

\* ast.literal_eval for the literals a stringified result is made of:
\* lists, tuples, unsigned numbers, quoted texts without escapes, True and
\* False.  A parse gives the value and the place after it; anything else is
\* the ValueError or SyntaxError of literal_eval.
NoParse == [ok |-> FALSE, value |-> PyNone, next |-> 0, trailing |-> FALSE]
Parsed(value, next) == [ok |-> TRUE, value |-> value, next |-> next, trailing |-> FALSE]

\* a number: digits, with at most one point; an int has no leading zero
ParseNumber(s, i) ==
  LET end  == RunEnd(s, i, LAMBDA c : c \in Digits \cup {"."})
      text == Slice(s, i, end)
  IN  IF ~IsDecimalText(text) \/ IsWordChar(At(s, end)) THEN NoParse
      ELSE IF Find(text, ".") # 0 THEN Parsed(PyFloat(text), end)
      ELSE IF Len(text) > 1 /\ Ch(text, 1) = "0" /\ NoLeadingZeros(text) # "0" THEN NoParse
      ELSE Parsed(PyIntOf(text), end)

\* a quoted text: up to the next quote of the same kind
ParseQuoted(s, i) ==
  LET closing == {j \in (i + 1)..Len(s) : Ch(s, j) = Ch(s, i)}
  IN  IF closing = {} \/ Contains(Slice(s, i, Min(closing \cup {Len(s)})), "\\") THEN NoParse
      ELSE Parsed(PyText(Slice(s, i + 1, Min(closing))), Min(closing) + 1)

\* True, False
ParseName(s, i) ==
  LET end  == RunEnd(s, i, IsWordChar)
      name == Slice(s, i, end)
  IN  IF name \in {"True", "False"} THEN Parsed(PyBool(name = "True"), end) ELSE NoParse

RECURSIVE ParseValue(_, _), ParseItems(_, _, _, _, _)
\* the list or tuple whose items r holds; c is the opening bracket, and
\* one item in parentheses without a comma is that item
Bracketed(c, r) ==
  IF ~r.ok THEN NoParse
  ELSE IF c = "[" THEN Parsed(PyList(r.value.items), r.next)
  ELSE IF Len(r.value.items) = 1 /\ ~r.trailing THEN Parsed(r.value.items[1], r.next)
  ELSE Parsed(PyTuple(r.value.items), r.next)

\* the value that starts at j
ParseAt(s, j) ==
  IF At(s, j) \in {"[", "("}
  THEN Bracketed(At(s, j), ParseItems(s, j + 1, IF At(s, j) = "[" THEN "]" ELSE ")", <<>>, FALSE))
  ELSE IF At(s, j) \in {"'", "\""} THEN ParseQuoted(s, j)
  ELSE IF At(s, j) \in Digits \cup {"."} THEN ParseNumber(s, j)
  ELSE ParseName(s, j)

ParseValue(s, i) == ParseAt(s, SkipSpaces(s, i))

\* the items after the item r
ItemsAfter(s, r, k, close, acc) ==
  IF ~r.ok THEN NoParse
  ELSE IF At(s, k) = "," THEN ParseItems(s, k + 1, close, Append(acc, r.value), TRUE)
  ELSE ParseItems(s, k, close, Append(acc, r.value), FALSE)

\* the item r and those after it
ItemsFrom(s, r, close, acc) == ItemsAfter(s, r, SkipSpaces(s, r.next), close, acc)

\* the items from j on, where an item or the closing bracket starts
ItemsAt(s, j, close, acc, comma) ==
  IF At(s, j) = close
  THEN [ok |-> TRUE, value |-> PyTuple(acc), next |-> j + 1, trailing |-> comma]
  ELSE IF acc # <<>> /\ ~comma THEN NoParse
  ELSE ItemsFrom(s, ParseValue(s, j), close, acc)

\* the items up to the closing bracket: acc holds the items read, comma
\* tells that a comma was read last
ParseItems(s, i, close, acc, comma) == ItemsAt(s, SkipSpaces(s, i), close, acc, comma)

\* a parse that leaves nothing but whitespace behind
WholeText(s, r) == IF r.ok /\ SkipSpaces(s, r.next) > Len(s) THEN r ELSE NoParse

literal_eval(s) == WholeText(s, ParseValue(s, 1))

\* the manual scanner of lines 304-343: tuples are the tuples closed so
\* far, current the elements of the open one, depth the parenthesis depth
\* and element the text of the element being read
ScanStart == [tuples |-> <<>>, current |-> <<>>, depth |-> 0, element |-> ""]

\* current_tuple with current_element, unless it is blank
WithElement(st) ==
  IF Strip(st.element) # "" THEN Append(st.current, Strip(st.element)) ELSE st.current

ScanChar(st, char) ==
  IF char = "(" /\ st.depth = 0
  THEN [tuples  |-> IF st.current # <<>> THEN Append(st.tuples, st.current) ELSE st.tuples,
        current |-> <<>>, depth |-> 1, element |-> ""]
  ELSE IF char = ")" /\ st.depth = 1
  THEN [tuples  |-> IF WithElement(st) # <<>> THEN Append(st.tuples, WithElement(st)) ELSE st.tuples,
        current |-> <<>>, depth |-> 0, element |-> ""]
  ELSE IF char = "(" /\ st.depth > 0
  THEN [st EXCEPT !.depth = @ + 1, !.element = @ \o char]
  ELSE IF char = ")" /\ st.depth > 1
  THEN [st EXCEPT !.depth = @ - 1, !.element = @ \o char]
  ELSE IF char = "," /\ st.depth = 1
  THEN [st EXCEPT !.current = WithElement(st), !.element = ""]
  ELSE IF st.depth > 0
  THEN [st EXCEPT !.element = @ \o char]
  ELSE st

RECURSIVE ScanTuples(_, _)
ScanTuples(work_string, n) ==
  IF n = 0 THEN ScanStart ELSE ScanChar(ScanTuples(work_string, n - 1), Ch(work_string, n))

\* element.strip().strip("'\"")
StripQuotes(s) == StripOf(s, LAMBDA c : c \in {"'", "\""})

\* float(element) or int(element) of the text of a number: unsigned is
\* the text without the hyphen it may start with
ConvertedNumber(element, negative, unsigned) ==
  IF ~IsDigits(ReplaceAll(unsigned, ".", "")) \/ ~IsDecimalText(unsigned)
  THEN PyText(element)
  ELSE IF Contains(element, ".")
  THEN [PyFloat(unsigned) EXCEPT !.v = (IF negative THEN "-" ELSE "") \o @]
  ELSE [PyIntOf(unsigned) EXCEPT !.v = (IF negative /\ @ # "0" THEN "-" ELSE "") \o @]

\* the element once stripped of blanks and quotes
Converted(element) ==
  IF element \in {"None", "null", "NULL"} THEN PyText("")
  ELSE IF element \in {"True", "true"} THEN PyBool(TRUE)
  ELSE IF element \in {"False", "false"} THEN PyBool(FALSE)
  ELSE IF IsDigits(ReplaceAll(ReplaceAll(element, ".", ""), "-", ""))
  THEN ConvertedNumber(element, StartsWith(element, "-"),
                       IF StartsWith(element, "-") THEN Slice(element, 2, Len(element) + 1)
                       ELSE element)
  ELSE PyText(element)

\* one element of a scanned tuple, converted (lines 350-370): the tokens for
\* no value become '', those for a truth value a bool, a text that is digits
\* once its points and hyphens are removed becomes a float or an int, or
\* stays a text when float() or int() raises; any other text stays a text
ConvertElement(raw) == Converted(StripQuotes(Strip(raw)))

\* work_string: the text without its outer brackets
WorkString(cleaned_string) ==
  IF StartsWith(cleaned_string, "[") /\ EndsWith(cleaned_string, "]")
  THEN Slice(cleaned_string, 2, Len(cleaned_string))
  ELSE cleaned_string

\* parsed_tuples: the elements of every tuple converted
ConvertedTuples(tuples) ==
  PyList([k \in 1..Len(tuples) |->
            PyTuple([e \in 1..Len(tuples[k]) |-> ConvertElement(tuples[k][e])])])

\* the fallback of lines 293-376 on the text literal_eval refused: the
\* list of the converted tuples, or an empty list when no tuple was found
ScannedTuples(cleaned_string) ==
  ConvertedTuples(ScanTuples(WorkString(cleaned_string), Len(WorkString(cleaned_string))).tuples)

\* the Decimal wrappers removed and None quoted
Unwrapped(s) == SubNone(SubDecimal(s))

\* lines 255-286 on the text whose date constructors are quoted
ShapedText(dated) ==
  IF StartsWith(dated, "[") /\ EndsWith(dated, "]") THEN Unwrapped(dated)
  ELSE IF StartsWith(dated, "(") /\ EndsWith(dated, ")") THEN Unwrapped("[" \o dated \o "]")
  ELSE IF Contains(dated, "Decimal(") \/ Contains(dated, "None") \/ Contains(dated, "datetime")
  THEN Unwrapped(IF StartsWith(dated, "[") THEN dated ELSE "[" \o dated \o "]")
  ELSE ""

\* the text handed to literal_eval: the date constructors quoted, then, by
\* the shape of the text, brackets put around it, the Decimal wrappers
\* removed and None quoted; "" when the text has none of the three shapes
LiteralText(result_string) == ShapedText(SubDatetime(SubDate(Strip(result_string))))

\* the value literal_eval gives, or what is done when it raises
EvaluatedOr(literal, handled) == IF literal.ok THEN literal.value ELSE handled

\* the tuples the manual parser found, or what is done when it found none
TuplesOr(scanned, otherwise) == IF scanned.items # <<>> THEN scanned ELSE otherwise

\* lines 241-383 on the argument and the text made of it for literal_eval
ParsedLiteral(result_string, text) ==
  IF Strip(result_string) = "" \/ text = "" THEN PyText(result_string)
  ELSE EvaluatedOr(literal_eval(text), TuplesOr(ScannedTuples(text), PyText(result_string)))

\* parse_sql_result_string(result_string) for a str: the parsed data, or
\* the argument when it is blank, has none of the shapes, or yields no tuple
parse_sql_result_string(result_string) ==
  ParsedLiteral(result_string, LiteralText(result_string))

(***************************************************************************)
(* format_sql_result_to_dataframe.  A rule of the function returns a       *)
(* DataFrame from the return statement named site, raises, or does not     *)
(* apply and leaves the data to the rules after it.                        *)
(***************************************************************************)
Return(site, df) == [out |-> "return", site |-> site, df |-> df, clean |-> FALSE]

Raise == [out |-> "raise", site |-> "", df |-> Raised, clean |-> FALSE]

Skip == [out |-> "skip", site |-> "", df |-> Raised, clean |-> FALSE]

\* return df of a DataFrame whose constructor may have raised
ReturnFrame(site, df) == IF df.raised THEN Raise ELSE Return(site, df)

\* return clean_dataframe_for_streamlit(df): the DataFrame is marked, and
\* CleanedReturn passes it through clean_dataframe_for_streamlit where the
\* function returns
ReturnCleaned(site, df) == IF df.raised THEN Raise ELSE [Return(site, df) EXCEPT !.clean = TRUE]

\* what a return statement hands back, cleaned when it is marked
CleanedReturn(r) ==
  IF r.clean THEN Return(r.site, clean_dataframe_for_streamlit(r.df)) ELSE r

\* try: tried / except Exception: handled
Except(tried, handled) == IF tried.out = "raise" THEN handled ELSE tried

\* df, returned cleaned from site when its constructor did not raise
ReturnOr(site, df, handled) == IF df.raised THEN handled ELSE ReturnCleaned(site, df)

\* any(term in text for term in terms)
AnyIn(terms, text) == \E term \in terms : Contains(text, term)

\* isinstance(value, (int, float, Decimal)): a bool is an int
IsNumeric(value) == value.t \in {"int", "float", "Decimal", "bool"}
Number(value) == IF value.t = "bool" THEN PyInt(IF value.v = "True" THEN "1" ELSE "0") ELSE value

\* row[k - 1]: the item of a tuple or list, the character of a str; it
\* raises for another value (TypeError) or past the end (IndexError)
HasItem(row, k) == HasLen(row) /\ k <= ValueLen(row)
Item(row, k) == IF row.t = "str" THEN PyText(Ch(row.v, k)) ELSE row.items[k]
ItemsOf(row) == [k \in 1..ValueLen(row) |-> Item(row, k)]

\* f"${float(value):,.2f}" if isinstance(value, (int, float, Decimal)) else str(value)
CurrencyOrStr(value) ==
  PyText(IF IsNumeric(value) THEN Currency(Number(value)) ELSE ValueStr(value))

\* Case 1, the data after it: a str that starts like a list or a tuple is
\* replaced by what parse_sql_result_string makes of it
ParsedData(data) ==
  IF data.t = "str" /\ (StartsWith(data.v, "[") \/ StartsWith(data.v, "("))
  THEN parse_sql_result_string(data.v)
  ELSE data

NotExecutedSuggestion ==
  "The query was generated successfully but couldn't be executed. This might be due to a database connection issue, query timeout, or data availability. Please try a simpler query or check your connection."

\* Case 1: a str that could not be parsed, or that is not shaped like rows
\* (the Status text is written without the warning sign that precedes it)
Case1(data) ==
  IF data.t # "str" THEN Skip
  ELSE IF StartsWith(data.v, "[") \/ StartsWith(data.v, "(")
  THEN IF ParsedData(data) # data THEN Skip
       ELSE Return("unparsed", FrameOfDict(<< <<"Result", <<data>> >> >>))
  ELSE IF AnyIn({"SELECT", "WITH", "FROM", "WHERE"}, Upper(data.v))
  THEN Return("not executed",
              FrameOfDict(<< <<"Status", <<PyText("Query Generated But Not Executed")>> >>,
                             <<"SQL_Query", <<data>> >>,
                             <<"Suggestion", <<PyText(NotExecutedSuggestion)>> >> >>))
  ELSE Return("text", FrameOfDict(<< <<"Result", <<data>> >> >>))

\* Case 2 with an empty DataFrame for the data that is missing
Case2EmptyFrame(data) ==
  IF data.t # "list" \/ data.items = <<>>
  THEN Return("no data", Frame(<<>>, <<>>))
  ELSE Skip

\* Case 2: no data, or not a list
Case2(data) ==
  IF data.t # "list" \/ data.items = <<>>
  THEN Return("no data", FrameOfDict(<< <<"Result", <<PyText("No data")>> >> >>))
  ELSE Skip

\* Case 3: order value queries
Case3(data, sql_query, user_question) ==
  IF ~(\/ Contains(Lower(user_question), "highest value")
       \/ Contains(Lower(sql_query), "totalprice")
       \/ Contains(Upper(sql_query), "ORDER BY")) THEN Skip
  ELSE IF ~HasLen(data.items[1]) THEN Raise
  ELSE IF ValueLen(data.items[1]) < 2 THEN Skip
  ELSE IF \E r \in 1..Len(data.items) : ~HasItem(data.items[r], 2) THEN Raise
  ELSE ReturnCleaned("order value",
         FrameOfRecords([r \in 1..Len(data.items) |->
           << <<"Order ID", Item(data.items[r], 1)>>,
              <<"Total Value", CurrencyOrStr(Item(data.items[r], 2))>> >>]))

\* Case 4, the column of a value by its place, the question q and the text
\* of the value, both in lower case
NamedColumn(i, value, q, shown) ==
  IF i = 1 /\ Contains(q, "city") THEN <<"City", value>>
  ELSE IF \/ Contains(shown, "price")
          \/ (value.t \in {"int", "float", "bool"} /\ GreaterThan(Number(value), 10000))
  THEN <<IF Contains(q, "price") THEN "Price" ELSE "Value", CurrencyOrStr(value)>>
  ELSE IF \/ Contains(shown, "id")
          \/ (i = 1 /\ value.t \in {"int", "bool"} /\ ~GreaterThan(Number(value), 9999))
  THEN <<"ID", value>>
  ELSE <<"Column_" \o IntStr(i), value>>

\* Case 4, one value of a row: its column name and the value stored
RealEstateColumn(i, value, user_question) ==
  NamedColumn(i, value, Lower(user_question), Lower(ValueStr(value)))

\* formatted_row[key] = value for the pair (key, value)
DictSetPair(d, pair) == DictSet(d, pair[1], pair[2])

\* Case 4, one row: formatted_row, filled value after value
RECURSIVE RealEstateRow(_, _, _)
RealEstateRow(cells, n, user_question) ==
  IF n = 0 THEN <<>>
  ELSE DictSetPair(RealEstateRow(cells, n - 1, user_question),
                   RealEstateColumn(n, cells[n], user_question))

\* Case 4: real estate queries
Case4(data, user_question) ==
  IF ~AnyIn({"price", "prices", "sale", "sales", "properties", "agent"}, Lower(user_question))
  THEN Skip
  ELSE IF ~HasLen(data.items[1]) THEN Raise
  ELSE IF ValueLen(data.items[1]) < 2 THEN Skip
  ELSE IF ~AnyIn({"price", "sale", "commission"}, Lower(ValueStr(data.items[1]))) THEN Skip
  ELSE IF \E r \in 1..Len(data.items) : ~HasLen(data.items[r]) THEN Raise
  ELSE ReturnCleaned("real estate",
         FrameOfRecords([r \in 1..Len(data.items) |->
           RealEstateRow(ItemsOf(data.items[r]), ValueLen(data.items[r]), user_question)]))

\* Case 5, the description of what is counted
CountDescription(user_question) ==
  LET q == Lower(user_question)
  IN  IF Contains(q, "table") THEN "Total tables in database"
      ELSE IF Contains(q, "customer") THEN "Total customers"
      ELSE IF Contains(q, "order") THEN "Total orders"
      ELSE IF Contains(q, "sale") THEN "Total sales"
      ELSE "Total records"

\* Case 5: COUNT queries
Case5(data, sql_query, user_question) ==
  IF ~(\/ Contains(Upper(sql_query), "COUNT(*)")
       \/ Contains(Lower(user_question), "count(*)")
       \/ Contains(Lower(user_question), "how many")
       \/ Contains(Lower(user_question), "quantity")) THEN Skip
  ELSE IF ~HasLen(data.items[1]) THEN Raise
  ELSE IF ValueLen(data.items[1]) # 1 THEN Skip
  ELSE LET count_value == Item(data.items[1], 1)
       IN  IF ~IsNumeric(count_value) THEN Raise
           ELSE Return("count",
                  FrameOfRecords(<< << <<"Description", PyText(CountDescription(user_question))>>,
                                       <<"Count", PyText(GroupedCount(Number(count_value)))>> >> >>))

\* Case 6: CURRENT_DATABASE
Case6(data, sql_query) ==
  IF Contains(Upper(sql_query), "CURRENT_DATABASE")
  THEN ReturnFrame("database", FrameOfRows(data.items, <<"Database">>))
  ELSE Skip

\* Case 7: table listings
Case7(data, sql_query) ==
  LET up == Upper(sql_query)
      first == data.items[1]
  IN  IF ~(\/ (Contains(up, "INFORMATION_SCHEMA.TABLES") /\ Contains(up, "TABLE_NAME"))
           \/ Contains(up, "SHOW TABLES")) THEN Skip
      ELSE IF ~HasLen(first) THEN Raise
      ELSE IF ValueLen(first) < 2 THEN Skip
      ELSE IF \E r \in 1..Len(data.items) : ~HasItem(data.items[r], 2) THEN Raise
      ELSE IF ValueLen(first) = 2
      THEN ReturnCleaned("tables and types",
             FrameOfRecords([r \in 1..Len(data.items) |->
               << <<"#", PyInt(IntStr(r))>>,
                  <<"Table", Item(data.items[r], 1)>>,
                  <<"Type", Item(data.items[r], 2)>> >>]))
      ELSE ReturnCleaned("tables",
             FrameOfRecords([r \in 1..Len(data.items) |->
               << <<"#", PyInt(IntStr(r))>>, <<"Table", Item(data.items[r], 2)>> >>]))

\* Case 8: region queries
Case8(data, sql_query, user_question) ==
  LET q == Lower(user_question)
      metric_name ==
        IF Contains(q, "average") \/ Contains(Lower(sql_query), "avg") THEN "Average Revenue"
        ELSE IF Contains(q, "sum") \/ Contains(q, "total") THEN "Total Revenue"
        ELSE IF Contains(Lower(sql_query), "count") THEN "Count"
        ELSE "Value"
  IN  IF ~Contains(q, "region") THEN Skip
      ELSE IF ~HasLen(data.items[1]) THEN Raise
      ELSE IF ValueLen(data.items[1]) # 2 THEN Skip
      ELSE IF \E r \in 1..Len(data.items) : ~HasItem(data.items[r], 2) THEN Raise
      ELSE ReturnCleaned("region",
             FrameOfRecords([r \in 1..Len(data.items) |->
               << <<"Region", Item(data.items[r], 1)>>,
                  <<metric_name, CurrencyOrStr(Item(data.items[r], 2))>> >>]))

\* the column names given to tables of 37 and of 20 columns, of ten columns
\* or more and of five or more
AgentColumns ==
  <<"ID", "UUID", "First_Name", "Last_Name", "Company", "Phone", "Email",
    "License", "State", "Years_Experience", "Total_Sales", "Total_Value",
    "Commission_Rate", "Address", "City", "State_Code", "Zip_Code",
    "Languages", "Specialization", "Rating", "Bio", "Website",
    "Personal_Info_1", "Personal_Info_2", "Active", "Hire_Date",
    "Last_Active", "Clients_Count", "Referrals", "Marketing_Budget",
    "Lead_Count", "Conversion_Rate", "Team_Size", "Contract_End",
    "CRM_System", "Social_Media", "Profile_Image">>

PropertyColumns ==
  <<"Property_ID", "Address", "City", "State", "Zip_Code", "Price",
    "Bedrooms", "Bathrooms", "Square_Feet", "Lot_Size", "Year_Built",
    "Property_Type", "Status", "Agent_ID", "Owner_ID", "Listed_Date",
    "Sold_Date", "Days_On_Market", "Description", "Features">>

MediumColumns ==
  <<"ID", "Name", "Description", "Value_1", "Value_2", "Date_1", "Date_2",
    "Status", "Category", "Notes">>

SmallColumns == <<"ID", "Name", "Value", "Status", "Date">>

\* names[:num_cols], extended to num_cols names with Column_{i + first} for
\* the places i (counted from 0) the names do not reach
ColumnNames(names, num_cols, first) ==
  [i \in 1..num_cols |-> IF i <= Len(names) THEN names[i] ELSE "Column_" \o IntStr(i - 1 + first)]

\* cleaned_data and string_data: every row a list of texts, '' for None;
\* an item that is no tuple or list a row of its own text
StringRows(data) ==
  [r \in 1..Len(data.items) |->
     LET row == data.items[r]
     IN  IF IsRow(row)
         THEN PyList([i \in 1..Len(row.items) |->
                        PyText(IF row.items[i].t = "NoneType" THEN "" ELSE ValueStr(row.items[i]))])
         ELSE PyList(<<PyText(ValueStr(row))>>)]

\* len(cleaned_data[0]) if cleaned_data[0] else 1
NumCols(cleaned_data) ==
  IF cleaned_data[1].items # <<>> THEN Len(cleaned_data[1].items) ELSE 1

\* Case 9, the names by the question (q, in lower case) and the number of
\* columns of the first row
TableColumns(q, num_cols) ==
  IF (Contains(q, "agent") /\ num_cols >= 35) \/ num_cols = 37
  THEN ColumnNames(AgentColumns, num_cols, 0)
  ELSE IF Contains(q, "propert") /\ num_cols >= 20
  THEN ColumnNames(PropertyColumns, num_cols, 0)
  ELSE ColumnNames(<<>>, num_cols, 1)

\* Case 9: questions that name a table
Case9(data, user_question) ==
  IF ~AnyIn({"agents", "properties", "locations", "owners", "transactions"}, Lower(user_question))
  THEN Skip
  ELSE ReturnOr("table",
         FrameOfRows(StringRows(data), TableColumns(Lower(user_question), NumCols(StringRows(data)))),
         ReturnCleaned("rows as text",
           FrameOfRecords([r \in 1..Len(data.items) |->
             << <<"Row", PyInt(IntStr(r))>>, <<"Data", PyText(ValueStr(data.items[r]))>> >>])))

\* Case 10, the names by the number of columns of the first row
DefaultColumns(num_cols) ==
  IF num_cols >= 35 THEN ColumnNames(AgentColumns, num_cols, 1)
  ELSE IF num_cols >= 20 THEN ColumnNames(PropertyColumns, num_cols, 1)
  ELSE IF num_cols >= 10 THEN ColumnNames(MediumColumns, num_cols, 1)
  ELSE IF num_cols >= 5 THEN ColumnNames(SmallColumns, num_cols, 1)
  ELSE ColumnNames(<<>>, num_cols, 1)

\* Case 10, the first attempt (lines 764-824)
DefaultAttempt(data) ==
  IF IsRow(data.items[1])
  THEN ReturnCleaned("default",
         FrameOfRows(StringRows(data), DefaultColumns(Len(StringRows(data)[1].items))))
  ELSE ReturnCleaned("scalars", FrameOfScalars(data.items))

\* Case 10, the names of the second attempt
FallbackColumns(num_cols) ==
  IF num_cols >= 35 THEN ColumnNames(AgentColumns, num_cols, 1)
  ELSE IF num_cols >= 20 THEN ColumnNames(PropertyColumns, num_cols, 1)
  ELSE ColumnNames(<<>>, num_cols, 1)

\* the whole result as the text of one cell
ResultCell(data) == FrameOfDict(<< <<"Result", <<PyText(ValueStr(data))>> >> >>)

\* Case 10, the except branch of the first attempt (lines 825-876): the
\* rows as texts once more, and the whole result in one cell when that
\* raises as well
DefaultFallback(data) ==
  ReturnOr("default as text",
           FrameOfRows(StringRows(data), FallbackColumns(Len(StringRows(data)[1].items))),
           Return("result cell", ResultCell(data)))

\* Case 10: default
Case10(data) == Except(DefaultAttempt(data), DefaultFallback(data))

\* text[:n]
Truncated(text, n) == SubSeq(text, 1, Min({n, Len(text)}))

\* the cell of the last except branch (line 911)
ErrorCell(data) ==
  FrameOfDict(<< <<"Error", <<PyText("Could not process data: "
                                       \o Truncated(ValueStr(data), 100) \o "...")>> >> >>)

\* the outer except branch (lines 878-911)
FormattingError(data) ==
  IF data.t = "list" /\ data.items # <<>>
  THEN IF IsRow(data.items[1])
       THEN ReturnOr("rows after error",
                     FrameOfRows(StringRows(data),
                                 ColumnNames(<<>>, Len(StringRows(data)[1].items), 0)),
                     Return("error cell", ErrorCell(data)))
       ELSE ReturnCleaned("items after error",
              FrameOfDict(<< <<"Result", [r \in 1..Len(data.items) |->
                                            PyText(ValueStr(data.items[r]))]>> >>))
  ELSE ReturnCleaned("result after error", ResultCell(data))

\* what a rule hands back, or the rules after it when it does not apply
SkipOr(r, rest) == IF r.out = "skip" THEN rest ELSE r

\* the rules of the try block in their order, and the first that applies:
\* the first rule is given the argument, the others the data after it
Rule(k, raw, data, sql_query, user_question) ==
  CASE k = 1  -> Case1(raw)
    [] k = 2  -> Case2(data)
    [] k = 3  -> Case3(data, sql_query, user_question)
    [] k = 4  -> Case4(data, user_question)
    [] k = 5  -> Case5(data, sql_query, user_question)
    [] k = 6  -> Case6(data, sql_query)
    [] k = 7  -> Case7(data, sql_query)
    [] k = 8  -> Case8(data, sql_query, user_question)
    [] k = 9  -> Case9(data, user_question)
    [] k = 10 -> Case10(data)

RECURSIVE FirstRule(_, _, _, _, _)
FirstRule(k, raw, data, sql_query, user_question) ==
  SkipOr(Rule(k, raw, data, sql_query, user_question),
         IF k = 10 THEN Skip ELSE FirstRule(k + 1, raw, data, sql_query, user_question))

\* the try block of lines 484-876 and the except branch of lines 878-911,
\* on the argument and the data Case 1 leaves
TryExcept(raw, data, sql_query, user_question) ==
  CleanedReturn(Except(FirstRule(1, raw, data, sql_query, user_question), FormattingError(data)))

\* format_sql_result_to_dataframe(data, sql_query, user_question)
format_sql_result_to_dataframe(raw, sql_query, user_question) ==
  TryExcept(raw, ParsedData(raw), sql_query, user_question)

(***************************************************************************)
(* State.                                                                  *)
(*   process_query: pc is the position in the call; user_question, chain   *)
(*   (the local "result"), sql_query, cleaned_sql, actual_result and       *)
(*   cleaned_final are its locals; ret is the record it returns and        *)
(*   propagated tells that an exception left it instead.                   *)
(*   processing_logs is st.session_state.processing_logs (an entry's       *)
(*   timestamp is left out).  llm_calls and db_calls record the calls of   *)
(*   sql_chain.invoke and of db.run, in order.                             *)
(***************************************************************************)
VARIABLES pc, user_question, chain, sql_query, cleaned_sql, actual_result,
          cleaned_final, ret, propagated, processing_logs, llm_calls, db_calls

\* A call of a translator of SchemaObfuscator: tr_fn is the function that
\* runs, tr_arg its argument, tr_sql its working copy (real_sql or
\* obfuscated_sql), tr_pc and tr_i the position in its loops; tr_calls
\* records the calls that are over, in order.
VARIABLES tr_pc, tr_fn, tr_arg, tr_sql, tr_i, tr_calls

tr_vars == <<tr_pc, tr_fn, tr_arg, tr_sql, tr_i, tr_calls>>

\* The class attributes of SchemaObfuscator (the four mappings), and the
\* calls of validate_obfuscated_sql that are over.
VARIABLES mappings, validations

ob_vars == <<mappings, validations>>

\* A completion of the language model handed to clean_sql_response (the
\* statement it holds, how the statement is wrapped, and the text), and
\* the results of the successive cleanings: of the completion, then of the
\* text the cleaning before it returned.
VARIABLES completion, cleanings

cl_vars == <<completion, cleanings>>

\* A call of format_sql_result_to_dataframe: its arguments, and what it
\* returned (or that it raised).
VARIABLES request, returned

mat_vars == <<request, returned>>

\* A SnowflakeConnection (db_conn), the sessions of the warehouse, the clock,
\* log_manager.logs, and the call of a method of the object that ended last.
VARIABLES db_conn, sessions, clock, log_manager, last_call

conn_vars == <<db_conn, sessions, clock, log_manager, last_call>>

\* The session state of the Streamlit application: the chat history, and
\* whether an agent and a connection are kept.
VARIABLES messages, agent, db_connection

chat_vars == <<messages, agent, db_connection>>

\* what an action of process_query, and one of a translator, leaves alone
outside_agent == <<tr_vars, ob_vars, cl_vars, mat_vars, conn_vars, chat_vars>>

agent_locals == <<user_question, chain, sql_query, cleaned_sql, actual_result, cleaned_final>>
agent_vars == <<pc, user_question, chain, sql_query, cleaned_sql, actual_result,
                cleaned_final, ret, propagated, processing_logs, llm_calls, db_calls>>

NoReturn == [pending |-> TRUE]

AgentInit ==
  /\ pc = "idle"
  /\ user_question = ""
  /\ chain = NoChainResult
  /\ sql_query = None
  /\ cleaned_sql = None
  /\ actual_result = None
  /\ cleaned_final = None
  /\ ret = NoReturn
  /\ propagated = FALSE
  /\ processing_logs = <<>>
  /\ llm_calls = <<>>
  /\ db_calls = <<>>

\* log_step(step_name, content)
log_step(logs, step_name, content) == Append(logs, [step |-> step_name, content |-> content])

\* db.run(sql) with the given outcome, as the executor sees it
DbRun(calls, sql, source, outcome) ==
  Append(calls, [sql |-> sql, source |-> source, raised |-> outcome.raised,
                 value |-> outcome.value, error |-> outcome.error])

\* cleaned.upper().startswith(("SELECT", "SHOW", "DESCRIBE")), for cleaned_sql
\* and for cleaned_final
StartsWithExecutable(cleaned) ==
  \E keyword \in {"SELECT", "SHOW", "DESCRIBE"} : StartsWith(Upper(cleaned), keyword)

\* a process_query without its outer except branch: the exception leaves
\* the call
OuterExceptReraise(error_msg) ==
  /\ ret' = ret
  /\ propagated' = TRUE
  /\ pc' = "done"
  /\ processing_logs' = processing_logs

\* the outer "except Exception as e" of process_query
OuterExcept(error_msg) ==
  /\ ret' = [success |-> FALSE, error |-> error_msg, result |-> None]
  /\ propagated' = FALSE
  /\ pc' = "done"
  /\ processing_logs' = log_step(processing_logs, "Error in query processing", error_msg)

\* an except branch around db.run that swallows the error: the call goes on
\* to its other sources
ReturnSqlErrorContinue(logs, error_str, sql) ==
  /\ ret' = ret
  /\ processing_logs' = logs
  /\ pc' = "fallback"

\* "return self._handle_sql_error(e, sql)" in an except branch around db.run:
\* the call ends with the failure record
ReturnSqlError(logs, error_str, sql) ==
  /\ ret' = handle_sql_error(error_str, sql)
  /\ processing_logs' = log_step(logs, "User-Friendly Error", UserMessage(error_str))
  /\ pc' = "done"

\* process_query is entered: the first log_step
ProcessQuery(question) ==
  /\ pc = "idle"
  /\ pc' = "metadata_check"
  /\ user_question' = question
  /\ processing_logs' = log_step(processing_logs, "Processing query", question)
  /\ UNCHANGED <<chain, sql_query, cleaned_sql, actual_result, cleaned_final, ret,
                 propagated, llm_calls, db_calls>>
  /\ UNCHANGED outside_agent

\* the except branch of _handle_metadata_query
MetadataFailure(error_str) ==
  [success |-> FALSE, error |-> "Error retrieving tables: " \o error_str, query_type |-> "metadata"]

\* _handle_metadata_query for a table-listing question: the fixed query is
\* run and its result, or the failure, is what process_query returns
HandleMetadataQuery(outcome) ==
  /\ pc = "metadata_check"
  /\ IsTableListing(user_question)
  /\ db_calls' = DbRun(db_calls, clean_sql, "metadata", outcome)
  /\ LET logs == log_step(log_step(processing_logs, "Metadata Query Detected",
                                   "Handling table list directly"),
                          "Direct SQL", clean_sql)
     IN  IF outcome.raised
         THEN /\ processing_logs' = log_step(logs, "Error in direct metadata query", outcome.error)
              /\ ret' = MetadataFailure(outcome.error)
         ELSE /\ processing_logs' =
                   log_step(logs, "Tables retrieved",
                            IntStr(IF Truthy(outcome.value) THEN PyLen(outcome.value) ELSE 0)
                              \o " tables found")
              /\ ret' = [success |-> TRUE, result |-> outcome.value, sql_query |-> clean_sql,
                         query_type |-> "metadata", direct_handling |-> TRUE]
  /\ pc' = "done"
  /\ UNCHANGED <<agent_locals, propagated, llm_calls>>
  /\ UNCHANGED outside_agent

\* lines 259-280: the SQL of the first intermediate step, "N/A" without one
FirstStepSql(step) ==
  IF step.is_dict
  THEN IF Truthy(Get(step, "sql_cmd")) THEN Get(step, "sql_cmd")
       ELSE IF Truthy(Get(step, "query")) THEN Get(step, "query")
       ELSE IF Truthy(Get(step, "sql")) THEN Get(step, "sql")
       ELSE Str(StepStr(step))
  ELSE Str(StepStr(step))

GeneratedSql(result) ==
  IF result.has_steps /\ result.intermediate_steps # <<>>
  THEN FirstStepSql(result.intermediate_steps[1])
  ELSE Str("N/A")

\* sql_chain.invoke(user_question) for any other question, then the
\* generated SQL is read from the intermediate steps
InvokeChain(raised, error, result) ==
  /\ pc = "metadata_check"
  /\ ~IsTableListing(user_question)
  /\ llm_calls' = Append(llm_calls, [question |-> user_question, raised |-> raised])
  /\ IF raised
     THEN /\ OuterExcept(error)
          /\ UNCHANGED <<agent_locals, db_calls>>
     ELSE /\ chain' = result
          /\ sql_query' = GeneratedSql(result)
          /\ processing_logs' =
               IF result.has_steps /\ result.intermediate_steps # <<>>
               THEN log_step(processing_logs, "Generated SQL query", PyStr(GeneratedSql(result)))
               ELSE processing_logs
          /\ pc' = "primary"
          /\ UNCHANGED <<user_question, cleaned_sql, actual_result, cleaned_final, ret,
                         propagated, db_calls>>
  /\ UNCHANGED outside_agent

\* line 286: cleaned_sql, when sql_query is a str
PrimaryCleaned == clean_sql_response(sql_query.v)

\* line 288: the primary candidate goes to the executor
PrimaryEligible ==
  /\ sql_query.t = "str"
  /\ PrimaryCleaned # ""
  /\ StartsWithExecutable(PrimaryCleaned)

\* lines 282-306, the candidate starts with SELECT, SHOW or DESCRIBE: it is
\* executed, and an executor error ends the call with _handle_sql_error
PrimaryExecute(outcome) ==
  /\ pc = "primary"
  /\ PrimaryEligible
  /\ cleaned_sql' = Str(PrimaryCleaned)
  /\ db_calls' = DbRun(db_calls, PrimaryCleaned, "primary", outcome)
  /\ LET logs == log_step(log_step(processing_logs, "SQL generated", PrimaryCleaned),
                          "Executing SQL", PrimaryCleaned)
     IN  IF outcome.raised
         THEN /\ ReturnSqlError(log_step(logs, "Error executing SQL", "Error: " \o outcome.error),
                                 outcome.error, PrimaryCleaned)
              /\ UNCHANGED actual_result
         ELSE /\ actual_result' = outcome.value
              /\ processing_logs' =
                   log_step(logs, "Results obtained", IntStr(PyLen(outcome.value)) \o " rows")
              /\ pc' = "fallback"
              /\ UNCHANGED ret
  /\ UNCHANGED <<user_question, chain, sql_query, cleaned_final, propagated, llm_calls>>
  /\ UNCHANGED outside_agent

\* lines 282-288, any other candidate: nothing is executed
PrimarySkip ==
  /\ pc = "primary"
  /\ ~PrimaryEligible
  /\ cleaned_sql' = IF sql_query.t = "str" THEN Str(PrimaryCleaned) ELSE cleaned_sql
  /\ pc' = "fallback"
  /\ UNCHANGED <<user_question, chain, sql_query, actual_result, cleaned_final, ret,
                 propagated, processing_logs, llm_calls, db_calls>>
  /\ UNCHANGED outside_agent

\* lines 315-331: the first field of the first step, in the order of the
\* steps and of the keys, that holds data other than the final answer
ResultKeys == <<"sql_result", "result", "data", "query_result">>

StepData(step, answer) ==
  LET found == {k \in 1..Len(ResultKeys) :
                  /\ step.is_dict
                  /\ HasKey(step, ResultKeys[k])
                  /\ Truthy(Get(step, ResultKeys[k]))
                  /\ Get(step, ResultKeys[k]) # answer}
  IN  IF found = {} THEN None ELSE Get(step, ResultKeys[Min(found)])

ScanSteps(steps, answer) ==
  LET found == {i \in 1..Len(steps) : StepData(steps[i], answer) # None}
  IN  IF found = {} THEN None ELSE StepData(steps[Min(found)], answer)

\* the key of the step that ScanSteps took its data from
ScanKey(steps, answer) ==
  LET step == steps[Min({i \in 1..Len(steps) : StepData(steps[i], answer) # None})]
  IN  ResultKeys[Min({k \in 1..Len(ResultKeys) :
                        /\ HasKey(step, ResultKeys[k])
                        /\ Truthy(Get(step, ResultKeys[k]))
                        /\ Get(step, ResultKeys[k]) # answer})]

\* lines 336-341: step["sql_result"] of the first dict step that has the key
ShowTablesSteps(steps) == {i \in 1..Len(steps) : steps[i].is_dict /\ HasKey(steps[i], "sql_result")}

\* lines 308-341: the data of the intermediate steps when nothing was
\* executed, then the special handling of SHOW TABLES; sql_query.upper()
\* raises AttributeError when sql_query is not a str
FallbackSources ==
  /\ pc = "fallback"
  /\ LET steps   == chain.intermediate_steps
         scanned == IF actual_result = None /\ chain.has_steps /\ steps # <<>>
                    THEN ScanSteps(steps, chain.result)
                    ELSE actual_result
         logs    == IF scanned # actual_result
                    THEN log_step(processing_logs, "Data found in intermediate_steps",
                                  "Field: " \o ScanKey(steps, chain.result) \o ", Data: "
                                    \o SubSeq(PyStr(scanned), 1,
                                              IF Len(PyStr(scanned)) > 100 THEN 100
                                              ELSE Len(PyStr(scanned)))
                                    \o "...")
                    ELSE processing_logs
     IN  IF scanned = None /\ Truthy(sql_query) /\ sql_query.t # "str"
         THEN /\ OuterExcept("'" \o sql_query.t \o "' object has no attribute 'upper'")
              /\ UNCHANGED actual_result
         ELSE /\ IF /\ scanned = None
                    /\ Truthy(sql_query)
                    /\ Contains(Upper(sql_query.v), "SHOW TABLES")
                    /\ chain.has_steps
                    /\ ShowTablesSteps(steps) # {}
                 THEN LET tables == Get(steps[Min(ShowTablesSteps(steps))], "sql_result")
                      IN  /\ actual_result' = tables
                          /\ processing_logs' =
                               log_step(logs, "SHOW TABLES data extracted",
                                        "Found " \o IntStr(IF Truthy(tables) THEN PyLen(tables) ELSE 0)
                                          \o " tables")
                 ELSE /\ actual_result' = scanned
                      /\ processing_logs' = logs
              /\ pc' = "last_resort"
              /\ UNCHANGED <<ret, propagated>>
  /\ UNCHANGED <<user_question, chain, sql_query, cleaned_sql, cleaned_final, llm_calls, db_calls>>
  /\ UNCHANGED outside_agent

\* line 348: cleaned_final, when the final answer is a str
FinalCleaned == clean_sql_response(chain.result.v)

\* line 349: the final answer goes to the executor
FinalEligible ==
  /\ chain.result.t = "str"
  /\ FinalCleaned # ""
  /\ StartsWithExecutable(FinalCleaned)

\* lines 343-362, nothing obtained so far and the final answer starts with
\* SELECT, SHOW or DESCRIBE: it is executed
LastResortExecute(outcome) ==
  /\ pc = "last_resort"
  /\ actual_result = None
  /\ FinalEligible
  /\ cleaned_final' = Str(FinalCleaned)
  /\ db_calls' = DbRun(db_calls, FinalCleaned, "final", outcome)
  /\ LET logs == log_step(processing_logs, "Executing LLM response as SQL", FinalCleaned)
     IN  IF outcome.raised
         THEN /\ ReturnSqlError(log_step(logs, "Error executing LLM response",
                                          "Error: " \o outcome.error),
                                 outcome.error, FinalCleaned)
              /\ UNCHANGED actual_result
         ELSE /\ actual_result' = outcome.value
              /\ processing_logs' = logs
              /\ pc' = "final"
              /\ UNCHANGED ret
  /\ UNCHANGED <<user_question, chain, sql_query, cleaned_sql, propagated, llm_calls>>
  /\ UNCHANGED outside_agent

\* lines 343-366, nothing obtained so far and the final answer is not
\* executable: the final answer itself becomes the result
LastResortAnswer ==
  /\ pc = "last_resort"
  /\ actual_result = None
  /\ ~FinalEligible
  /\ cleaned_final' = IF chain.result.t = "str" THEN Str(FinalCleaned) ELSE cleaned_final
  /\ actual_result' = chain.result
  /\ pc' = "final"
  /\ UNCHANGED <<user_question, chain, sql_query, cleaned_sql, ret, propagated,
                 processing_logs, llm_calls, db_calls>>
  /\ UNCHANGED outside_agent

\* line 344 is false: a result was obtained before
LastResortSkip ==
  /\ pc = "last_resort"
  /\ actual_result # None
  /\ pc' = "final"
  /\ UNCHANGED <<agent_locals, ret, propagated, processing_logs, llm_calls, db_calls>>
  /\ UNCHANGED outside_agent

\* line 369
final_sql_query == IF sql_query.t = "str" THEN sql_query.v ELSE PyStr(sql_query)

\* lines 372-373: no result, or a str that holds SELECT, WITH, FROM or WHERE
LooksLikeQuery(result) ==
  \/ result = None
  \/ /\ result.t = "str"
     /\ \E keyword \in {"SELECT", "WITH", "FROM", "WHERE"} : Contains(Upper(result.v), keyword)

\* the message of lines 378-382, its bullet characters written "-"
NoDataMessage ==
  "Query was generated successfully but couldn't retrieve data. This might be due to:"
    \o "\n- Database connection issues" \o "\n- Query complexity or timeout"
    \o "\n- Data availability" \o "\n- Column or table access permissions"

\* lines 368-392: the record that ends the call
PrepareFinalResult ==
  /\ pc = "final"
  /\ IF LooksLikeQuery(actual_result)
     THEN /\ processing_logs' = log_step(processing_logs, "No data results",
                                         "Query generated but no data obtained")
          /\ ret' = [success |-> FALSE, error |-> NoDataMessage,
                     sql_query |-> final_sql_query, user_friendly |-> TRUE]
     ELSE /\ processing_logs' = processing_logs
          /\ ret' = [success |-> TRUE, result |-> actual_result,
                     sql_query |-> final_sql_query,
                     intermediate_steps |-> chain.intermediate_steps]
  /\ pc' = "done"
  /\ UNCHANGED <<agent_locals, propagated, llm_calls, db_calls>>
  /\ UNCHANGED outside_agent

AgentNext ==
  \/ \E question \in Questions : ProcessQuery(question)
  \/ \E outcome \in ExecOutcomes : HandleMetadataQuery(outcome)
  \/ \E result \in ChainResults : InvokeChain(FALSE, "", result)
  \/ \E error \in ChainErrors : InvokeChain(TRUE, error, NoChainResult)
  \/ \E outcome \in ExecOutcomes : PrimaryExecute(outcome)
  \/ PrimarySkip
  \/ FallbackSources
  \/ \E outcome \in ExecOutcomes : LastResortExecute(outcome)
  \/ LastResortAnswer
  \/ LastResortSkip
  \/ PrepareFinalResult


(***************************************************************************)
(* SchemaObfuscator.translate_to_real_sql and translate_to_obfuscated_sql  *)
(* step by step: one action per pass of a loop, and an exception may be    *)
(* raised at any statement of the try block.                               *)
(***************************************************************************)
ToRealTables        == SortedByLen(REVERSE_TABLE_MAPPING)
ToRealColumns       == SortedByLen(REVERSE_COLUMN_MAPPING)
ToObfuscatedTables  == SortedByLen(TABLE_MAPPING)
ToObfuscatedColumns == SortedByLen(COLUMN_MAPPING)

\* the class attributes as the class body defines them
ClassAttributes ==
  [TABLE_MAPPING          |-> TABLE_MAPPING,
   COLUMN_MAPPING         |-> COLUMN_MAPPING,
   REVERSE_TABLE_MAPPING  |-> REVERSE_TABLE_MAPPING,
   REVERSE_COLUMN_MAPPING |-> REVERSE_COLUMN_MAPPING]

\* what an action of the obfuscator leaves alone: the state of
\* process_query and the class attributes, which no statement assigns
outside_translator == <<agent_vars, mappings, cl_vars, mat_vars, conn_vars, chat_vars>>

\* table_replacements and column_replacements of the function that runs:
\* the items of the class attribute, sorted (the sorted lists of the
\* attributes as defined are computed once)
table_replacements(fn) ==
  IF mappings = ClassAttributes
  THEN IF fn = "translate_to_real_sql" THEN ToRealTables ELSE ToObfuscatedTables
  ELSE SortedByLen(IF fn = "translate_to_real_sql"
                   THEN mappings.REVERSE_TABLE_MAPPING ELSE mappings.TABLE_MAPPING)

column_replacements(fn) ==
  IF mappings = ClassAttributes
  THEN IF fn = "translate_to_real_sql" THEN ToRealColumns ELSE ToObfuscatedColumns
  ELSE SortedByLen(IF fn = "translate_to_real_sql"
                   THEN mappings.REVERSE_COLUMN_MAPPING ELSE mappings.COLUMN_MAPPING)

\* the loop a function starts with, and the one that follows it
FirstLoop(fn) == IF fn = "translate_to_real_sql" THEN "tables" ELSE "qualified"
AfterLoop(fn, loop) ==
  IF loop = "tables"
  THEN IF fn = "translate_to_real_sql" THEN "qualified" ELSE "return"
  ELSE IF fn = "translate_to_real_sql" THEN "return" ELSE "tables"

\* SQL written with obfuscated names only: every mapped column, bare and
\* qualified, selected from its table, every table in upper case, and the
\* empty text
ObfuscatedTable(qualified) == SubSeq(qualified, 1, Find(qualified, ".") - 1)

ObfuscatedSql ==
  {"SELECT " \o ColumnPart(COLUMN_MAPPING[i][2]) \o " FROM " \o ObfuscatedTable(COLUMN_MAPPING[i][2]) :
     i \in 1..Len(COLUMN_MAPPING)}
  \cup {"SELECT " \o COLUMN_MAPPING[i][2] \o " FROM " \o ObfuscatedTable(COLUMN_MAPPING[i][2]) :
          i \in 1..Len(COLUMN_MAPPING)}
  \cup {"SELECT * FROM " \o Upper(TABLE_MAPPING[i][2]) : i \in 1..Len(TABLE_MAPPING)}
  \cup {""}

TrInit ==
  /\ mappings = ClassAttributes
  /\ validations = <<>>
  /\ tr_pc = "idle"
  /\ tr_fn = ""
  /\ tr_arg = ""
  /\ tr_sql = ""
  /\ tr_i = 0
  /\ tr_calls = <<>>

\* a return statement: the call is over and is recorded with what it got,
\* what it gave back and the working copy it left
Returned(value, raised) ==
  /\ tr_calls' = Append(tr_calls, [fn |-> tr_fn, arg |-> tr_arg, ret |-> value,
                                   raised |-> raised, working |-> tr_sql])
  /\ tr_pc' = "idle"
  /\ UNCHANGED <<tr_fn, tr_arg, tr_sql, tr_i>>

\* an except branch that returns the working copy
ExceptReturnWorkingCopy(original, working) == working

\* what the "except Exception" branch of a translator returns
ExceptReturn(original, working) == original

\* a translator is entered: empty text is returned at once, any other text
\* is copied and the try block begins
Translate(fn, sql) ==
  /\ tr_pc = "idle"
  /\ IF sql = ""
     THEN /\ tr_calls' = Append(tr_calls, [fn |-> fn, arg |-> sql, ret |-> sql,
                                           raised |-> FALSE, working |-> sql])
          /\ UNCHANGED <<tr_pc, tr_fn, tr_arg, tr_sql, tr_i>>
     ELSE /\ tr_fn' = fn
          /\ tr_arg' = sql
          /\ tr_sql' = sql
          /\ tr_i' = 1
          /\ tr_pc' = FirstLoop(fn)
          /\ UNCHANGED tr_calls
  /\ UNCHANGED validations
  /\ UNCHANGED outside_translator

\* translate_to_real_sql(obfuscated_sql) on SQL of the LLM
TranslateToReal(obfuscated_sql) ==
  /\ tr_calls = <<>>
  /\ validations = <<>>
  /\ Translate("translate_to_real_sql", obfuscated_sql)

\* translate_to_obfuscated_sql on what translate_to_real_sql returned
TranslateBack ==
  /\ Len(tr_calls) = 1
  /\ ~tr_calls[1].raised
  /\ Translate("translate_to_obfuscated_sql", tr_calls[1].ret)

\* one pass of the table loop
ReplaceTablePass ==
  /\ tr_pc = "tables"
  /\ tr_sql' = ReplaceTable(tr_sql, table_replacements(tr_fn)[tr_i])
  /\ IF tr_i < Len(table_replacements(tr_fn))
     THEN tr_i' = tr_i + 1 /\ tr_pc' = tr_pc
     ELSE tr_i' = 1 /\ tr_pc' = AfterLoop(tr_fn, "tables")
  /\ UNCHANGED <<tr_fn, tr_arg, tr_calls>>
  /\ UNCHANGED validations
  /\ UNCHANGED outside_translator

\* one pass of the column loop, first statement: str.replace of the
\* qualified name
ReplaceQualifiedPass ==
  /\ tr_pc = "qualified"
  /\ tr_sql' = ReplaceQualified(tr_sql, column_replacements(tr_fn)[tr_i])
  /\ tr_pc' = "bare"
  /\ UNCHANGED <<tr_fn, tr_arg, tr_i, tr_calls>>
  /\ UNCHANGED validations
  /\ UNCHANGED outside_translator

\* one pass of the column loop, second statement: re.sub of the bare name
ReplaceBarePass ==
  /\ tr_pc = "bare"
  /\ tr_sql' = ReplaceBare(tr_sql, column_replacements(tr_fn)[tr_i])
  /\ IF tr_i < Len(column_replacements(tr_fn))
     THEN tr_i' = tr_i + 1 /\ tr_pc' = "qualified"
     ELSE tr_i' = 1 /\ tr_pc' = AfterLoop(tr_fn, "columns")
  /\ UNCHANGED <<tr_fn, tr_arg, tr_calls>>
  /\ UNCHANGED validations
  /\ UNCHANGED outside_translator

\* the return at the end of the try block
ReturnTranslated ==
  /\ tr_pc = "return"
  /\ Returned(tr_sql, FALSE)
  /\ UNCHANGED validations
  /\ UNCHANGED outside_translator

\* a statement of the try block raises: the except branch returns
RaiseInTranslate ==
  /\ tr_pc \in {"tables", "qualified", "bare", "return"}
  /\ Returned(ExceptReturn(tr_arg, tr_sql), TRUE)
  /\ UNCHANGED validations
  /\ UNCHANGED outside_translator

(***************************************************************************)
(* SchemaObfuscator.validate_obfuscated_sql.                               *)
(***************************************************************************)
\* re.search(r'\b' + re.escape(word) + r'\b', text) finds a match
ReSearchWord(text, word) ==
  \E j \in 1..(Len(text) - Len(word) + 1) :
    /\ OccursAt(text, j, word)
    /\ (j = 1 \/ ~IsWordChar(Ch(text, j - 1)))
    /\ (j + Len(word) - 1 = Len(text) \/ ~IsWordChar(Ch(text, j + Len(word))))

distinctive_columns == <<"property_id", "location_id", "agent_id", "transaction_id">>

\* x in a list
InList(x, list) == \E i \in 1..Len(list) : list[i] = x

\* the first loop: one message for each key of TABLE_MAPPING found
TableViolations(sql) ==
  LET sql_lower == Lower(sql)
      found     == SelectSeq(mappings.TABLE_MAPPING,
                             LAMBDA item : ReSearchWord(sql_lower, Lower(item[1])))
  IN  [k \in 1..Len(found) |-> "Real table name found: " \o found[k][1]]

\* the second loop: one message for each key of COLUMN_MAPPING whose column
\* part is distinctive and found
ColumnViolations(sql) ==
  LET sql_lower == Lower(sql)
      found     == SelectSeq(mappings.COLUMN_MAPPING,
                             LAMBDA item : /\ Contains(item[1], ".")
                                           /\ InList(Lower(ColumnPart(item[1])), distinctive_columns)
                                           /\ ReSearchWord(sql_lower, Lower(ColumnPart(item[1]))))
  IN  [k \in 1..Len(found) |-> "Real column name found: " \o Lower(ColumnPart(found[k][1]))]

\* a validator that returns at its first violation
FirstViolationOnly(sql) ==
  LET all == TableViolations(sql) \o ColumnViolations(sql)
  IN  IF all = <<>> THEN <<>> ELSE <<all[1]>>

\* the list "violations" when the loops are over
FoundViolations(sql) == TableViolations(sql) \o ColumnViolations(sql)

\* validate_obfuscated_sql(sql): the pair (is_valid, violations)
validate_obfuscated_sql(sql) ==
  IF sql = "" THEN [is_valid |-> TRUE, violations |-> <<>>]
  ELSE [is_valid |-> Len(FoundViolations(sql)) = 0, violations |-> FoundViolations(sql)]

\* split('.')[0]
TablePart(qualified) == SubSeq(qualified, 1, Find(qualified, ".") - 1)

\* SQL written with real names: every mapped column, bare and qualified,
\* selected from its table, and every table in upper case
RealSql ==
  {"SELECT " \o ColumnPart(COLUMN_MAPPING[i][1]) \o " FROM " \o TablePart(COLUMN_MAPPING[i][1]) :
     i \in 1..Len(COLUMN_MAPPING)}
  \cup {"SELECT " \o COLUMN_MAPPING[i][1] \o " FROM " \o TablePart(COLUMN_MAPPING[i][1]) :
          i \in 1..Len(COLUMN_MAPPING)}
  \cup {"SELECT * FROM " \o Upper(TABLE_MAPPING[i][1]) : i \in 1..Len(TABLE_MAPPING)}

\* the texts validated: obfuscated SQL, real SQL, SQL that joins two real
\* tables, and SQL whose words only hold real names as a part
ValidatedSql ==
  ObfuscatedSql \cup RealSql
  \cup {"select PROPERTY_ID, location_id from Properties p join transactions t",
        "SELECT property_identity FROM myproperties",
        "SELECT transaction_id, agent_id FROM commercial_events"}

\* one call of validate_obfuscated_sql
ValidateObfuscatedSql(sql) ==
  /\ tr_pc = "idle"
  /\ tr_calls = <<>>
  /\ validations = <<>>
  /\ validations' = Append(validations, [sql        |-> sql,
                                         is_valid   |-> validate_obfuscated_sql(sql).is_valid,
                                         violations |-> validate_obfuscated_sql(sql).violations])
  /\ UNCHANGED tr_vars
  /\ UNCHANGED outside_translator

TranslateNext ==
  \/ \E sql \in ValidatedSql : ValidateObfuscatedSql(sql)
  \/ \E obfuscated_sql \in ObfuscatedSql : TranslateToReal(obfuscated_sql)
  \/ TranslateBack
  \/ ReplaceTablePass
  \/ ReplaceQualifiedPass
  \/ ReplaceBarePass
  \/ ReturnTranslated
  \/ RaiseInTranslate

(***************************************************************************)
(* clean_sql_response on its own: a completion is cleaned, and the text    *)
(* returned is cleaned again, as process_query does with the query of a    *)
(* step (line 286) and with the final answer (line 348).                   *)
(***************************************************************************)
\* how many times in a row a text is cleaned
MaxCleanings == 2

\* statements a completion holds: on one line, on several lines that each
\* carry a keyword, on several lines of which one holds only a column name,
\* in lower case with runs of spaces, and with a quoted identifier
SqlStatements ==
  {"SELECT city FROM locations",
   "SELECT city, state FROM locations WHERE state = 'TX' ORDER BY city LIMIT 5",
   "SELECT city\nFROM locations\nWHERE state = 'TX'",
   "SELECT\n  city\nFROM locations",
   "SELECT city,\n       state\nFROM locations\nLIMIT 5",
   "select  city\tfrom   locations",
   "WITH t AS (SELECT city FROM locations)\nSELECT COUNT(*) FROM t",
   "SHOW TABLES",
   "DESCRIBE locations",
   "SELECT " \o BT \o "city" \o BT \o " FROM locations",
   "SELECT city FROM " \o BT \o "locations" \o BT \o " LIMIT 5"}

\* what a completion holds in place of a statement: prose around a keyword,
\* prose without one, and nothing
OtherTexts ==
  {"The cities come FROM locations",
   "Sorry, I cannot answer that",
   "N/A",
   ""}

Statements == SqlStatements \cup OtherTexts

\* how a completion wraps its statement
Wrappers ==
  {"bare", "padded", "fence", "fence sql", "fence SQL", "fence mysql",
   "fence oracle", "inline fence", "inline fence sql", "backticks",
   "prose and fence"}

Wrap(wrapper, statement) ==
  CASE wrapper = "bare"             -> statement
    [] wrapper = "padded"           -> "  " \o statement \o " \n"
    [] wrapper = "fence"            -> FENCE \o "\n" \o statement \o "\n" \o FENCE
    [] wrapper = "fence sql"        -> FENCE \o "sql\n" \o statement \o "\n" \o FENCE
    [] wrapper = "fence SQL"        -> " " \o FENCE \o "SQL \n" \o statement \o "\n" \o FENCE \o "\n"
    [] wrapper = "fence mysql"      -> FENCE \o "mysql\n" \o statement \o "\n" \o FENCE
    [] wrapper = "fence oracle"     -> FENCE \o "oracle\n" \o statement \o "\n" \o FENCE
    [] wrapper = "inline fence"     -> FENCE \o statement \o FENCE
    [] wrapper = "inline fence sql" -> FENCE \o "sql " \o statement \o FENCE
    [] wrapper = "backticks"        -> BT \o statement \o BT
    [] wrapper = "prose and fence"  -> "Here is the query:\n" \o FENCE \o "sql\n" \o statement \o "\n" \o FENCE

Completions ==
  {[wrapper |-> w, statement |-> s, text |-> Wrap(w, s)] : w \in Wrappers, s \in Statements}

NoCompletion == [wrapper |-> "", statement |-> "", text |-> ""]

CleanInit ==
  /\ completion = NoCompletion
  /\ cleanings = <<>>

\* what a call of clean_sql_response leaves alone
outside_cleaner == <<agent_vars, tr_vars, ob_vars, mat_vars, conn_vars, chat_vars>>

\* cleaned_sql = self.clean_sql_response(sql_query)
CleanSqlResponse(c) ==
  /\ completion = NoCompletion
  /\ cleanings = <<>>
  /\ completion' = c
  /\ cleanings' = <<clean_sql_response(c.text)>>
  /\ UNCHANGED outside_cleaner

\* the text a cleaning returned is cleaned again
CleanAgain ==
  /\ cleanings # <<>>
  /\ Len(cleanings) < MaxCleanings
  /\ cleanings' = Append(cleanings, clean_sql_response(cleanings[Len(cleanings)]))
  /\ UNCHANGED completion
  /\ UNCHANGED outside_cleaner

CleanNext ==
  \/ \E c \in Completions : CleanSqlResponse(c)
  \/ CleanAgain

(***************************************************************************)
(* A call of format_sql_result_to_dataframe.                               *)
(***************************************************************************)
\* raw results: typed rows (with a Decimal, of one value, of two texts, with
\* a text, a large number and None),
\* rows of differing lengths (the first the shorter, the first the longer),
\* a list of scalars, the empty list, a scalar, None, texts that are no
\* rows (empty, an answer, a statement), and stringified rows: with Decimal
\* wrappers, of one value, a tuple with None, with a date, rows that only
\* the scanner reads (of differing lengths), the empty list, and a text cut
\* short
TypedResults ==
  {PyList(<<PyTuple(<<PyInt("1"), PyDecimal("500000.00")>>),
            PyTuple(<<PyInt("2"), PyDecimal("750000.00")>>)>>),
   PyList(<<PyTuple(<<PyInt("1250")>>)>>),
   PyList(<<PyTuple(<<PyInt("42")>>)>>),
   PyList(<<PyTuple(<<PyInt("5")>>), PyTuple(<<PyInt("7")>>)>>),
   PyList(<<PyTuple(<<PyText("Ronaldburgh"), PyInt("20"), PyInt("986092")>>),
            PyTuple(<<PyText("North Sarah"), PyInt("5"), PyInt("973107")>>)>>),
   PyList(<<PyTuple(<<PyText("AGENTS"), PyText("BASE TABLE")>>),
            PyTuple(<<PyText("PROPERTIES"), PyText("BASE TABLE")>>)>>),
   PyList(<<PyTuple(<<PyText("Austin"), PyText("price reduced"), PyInt("450000"), PyNone>>)>>),
   PyList(<<PyTuple(<<PyInt("1")>>), PyTuple(<<PyInt("2"), PyInt("3")>>)>>),
   PyList(<<PyTuple(<<PyInt("1"), PyInt("2")>>), PyTuple(<<PyInt("3")>>)>>),
   PyList(<<PyTuple(<<PyText("sale price")>>), PyTuple(<<PyText("x"), PyText("y")>>)>>),
   PyList(<<PyInt("1"), PyInt("2")>>),
   PyList(<<>>),
   PyInt("42"),
   PyNone}

TextResults ==
  {PyText(""),
   PyText("There are 1250 properties"),
   PyText("SELECT city FROM locations"),
   PyText("[(1, Decimal('500000.00')), (2, Decimal('750000.00'))]"),
   PyText("[(1250,)]"),
   PyText("(7, None)"),
   PyText("[(1, datetime.date(2024, 1, 15))]"),
   PyText("[(2, x), (1, 'a, b')]"),
   PyText("[(1, 'a, b'), (2, x)]"),
   PyText("[]"),
   PyText("[(1, 'Austin'), (2, 'Dal")}

RawResults == TypedResults \cup TextResults

SqlTexts ==
  {"",
   "SELECT COUNT(*) FROM properties",
   "SELECT CURRENT_DATABASE()",
   "SHOW TABLES",
   "SELECT property_id, price FROM properties",
   "SELECT city, price FROM properties ORDER BY price DESC"}

UserQuestions ==
  {"",
   "how many properties are there",
   "what are the prices of the properties",
   "show the first rows of agents",
   "average revenue by region",
   "which city has the highest value"}

NoRequest == [data |-> PyNone, sql_query |-> "", user_question |-> "", made |-> FALSE]

\* what a call of format_sql_result_to_dataframe leaves alone
outside_materializer == <<agent_vars, tr_vars, ob_vars, cl_vars, conn_vars, chat_vars>>

MaterializeInit ==
  /\ request = NoRequest
  /\ returned = Skip

\* df = format_sql_result_to_dataframe(data, sql_query, user_question)
FormatSqlResultToDataframe(data, sql_text, question) ==
  /\ ~request.made
  /\ request' = [data |-> data, sql_query |-> sql_text,
                 user_question |-> question, made |-> TRUE]
  /\ returned' = format_sql_result_to_dataframe(data, sql_text, question)
  /\ UNCHANGED outside_materializer

MaterializeNext ==
  \E data \in RawResults, sql_text \in SqlTexts, question \in UserQuestions :
    FormatSqlResultToDataframe(data, sql_text, question)

(***************************************************************************)
(* src/database/snowflake_conn.py: a SnowflakeConnection, the warehouse    *)
(* it talks to and the LogManager it writes to.                            *)
(*   db_conn is the object: connection and engine are handles (NoHandle    *)
(*   for None), _context_cache is None or a dict and _cache_timestamp is   *)
(*   None or a number of seconds.  sessions[h] tells whether the session   *)
(*   behind handle h is open, clock is time.time(), log_manager is         *)
(*   log_manager.logs (an entry's timestamp and message are left out) and  *)
(*   last_call is the call of a method that ended last: what it returned,  *)
(*   the handle it sent statements to and how many, the clock when it was  *)
(*   made and whether it ran to its end without an exception inside it.    *)
(***************************************************************************)
MaxConnections == 2
MaxTicks == 3
MaxLogs == 8

\* self._cache_ttl
_cache_ttl == 300

\* the seconds between two readings of the clock: half the time a cached
\* context lives
TickSeconds == _cache_ttl \div 2

NoHandle == 0

\* the statements get_database_context sends
MetadataQueries == 4

NoTimestamp == [t |-> "NoneType"]
Timestamp(seconds) == [t |-> "float", seconds |-> seconds]

\* SnowflakeConnection.__init__
SnowflakeConnection ==
  [connection       |-> NoHandle,
   engine           |-> NoHandle,
   is_connected     |-> FALSE,
   _context_cache   |-> PyNone,
   _cache_timestamp |-> NoTimestamp]

\* LogManager.add_log(category, message, level)
add_log(logs, category, level) == Append(logs, [category |-> category, level |-> level])

\* ErrorHandler.handle_exception(e, context)
handle_exception(logs) == add_log(logs, "Error", "ERROR")

\* what a method leaves behind: the object, the logs, the value returned,
\* the handle its statements went to and their number
Call(self, logs, value, handle, queries) ==
  [self |-> self, logs |-> logs, ret |-> value, handle |-> handle, queries |-> queries]

\* the dict the four metadata statements fill on a session; the session
\* that answered is kept with it
SessionContext(handle) ==
  [t            |-> "dict",
   database     |-> "REAL_ESTATE",
   schema       |-> "PUBLIC",
   warehouse    |-> "COMPUTE_WH",
   table_count  |-> 5,
   schema_count |-> 2,
   session      |-> handle]

\* {"error": ...}
ErrorRecord(message) == [t |-> "dict", error |-> message]

IsErrorRecord(value) == value.t = "dict" /\ "error" \in DOMAIN value

\* what connect may meet: a configuration that is not valid, an exception
\* of snowflake.connector.connect, of create_engine or of the verification
\* statement, or none of these
ConnectOutcomes ==
  {"invalid configuration", "connector raises", "engine raises", "verification raises", "ok"}

\* the outcomes of connect that bind self.connection to a new session
OpensSession(outcome) == outcome \in {"engine raises", "verification raises", "ok"}

\* lines 71-103 of connect: from snowflake.connector.connect on; handle is
\* the session the connector opens
ConnectTry(self, logs, outcome, handle) ==
  CASE outcome = "connector raises" ->
         Call(self, handle_exception(logs), PyBool(FALSE), NoHandle, 0)
    [] outcome = "engine raises" ->
         Call([self EXCEPT !.connection = handle], handle_exception(logs),
              PyBool(FALSE), NoHandle, 0)
    [] outcome = "verification raises" ->
         Call([self EXCEPT !.connection = handle, !.engine = handle],
              handle_exception(logs), PyBool(FALSE), handle, 1)
    [] OTHER ->
         Call([self EXCEPT !.connection = handle, !.engine = handle, !.is_connected = TRUE],
              add_log(logs, "Connected", "INFO"), PyBool(TRUE), handle, 1)

\* SnowflakeConnection.connect()
connect(self, logs, outcome, handle) ==
  IF outcome = "invalid configuration"
  THEN Call(self, add_log(add_log(logs, "Connecting", "INFO"), "Configuration", "ERROR"),
            PyBool(FALSE), NoHandle, 0)
  ELSE ConnectTry(self, add_log(add_log(logs, "Connecting", "INFO"), "Configuration", "INFO"),
                  outcome, handle)

\* what disconnect may meet: an exception of connection.close() or of
\* engine.dispose(), or none
DisconnectOutcomes == {"close raises", "dispose raises", "ok"}

\* lines 115-121 of disconnect
Cleared(self) ==
  [self EXCEPT !.is_connected = FALSE, !.connection = NoHandle, !.engine = NoHandle,
               !._context_cache = PyNone, !._cache_timestamp = NoTimestamp]

\* lines 112-124 of disconnect: from "if self.engine" on
DisposeEngine(self, logs, outcome) ==
  IF self.engine # NoHandle /\ outcome = "dispose raises"
  THEN Call(self, handle_exception(logs), PyNone, NoHandle, 0)
  ELSE Call(Cleared(self), logs, PyNone, NoHandle, 0)

\* SnowflakeConnection.disconnect()
disconnect(self, logs, outcome) ==
  IF self.connection = NoHandle
  THEN DisposeEngine(self, logs, outcome)
  ELSE IF outcome = "close raises"
  THEN Call(self, handle_exception(logs), PyNone, NoHandle, 0)
  ELSE DisposeEngine(self, add_log(logs, "Disconnected", "INFO"), outcome)

\* the outcome can happen in disconnect on this object
DisconnectMeets(self, outcome) ==
  CASE outcome = "close raises"   -> self.connection # NoHandle
    [] outcome = "dispose raises" -> self.engine # NoHandle
    [] OTHER                      -> TRUE

\* the try block of disconnect ran to its end
DisconnectCompleted(self, outcome) ==
  ~(outcome = "close raises" /\ self.connection # NoHandle)
  /\ ~(outcome = "dispose raises" /\ self.engine # NoHandle)

\* connection.close() of disconnect closed the session
ClosesSession(self, outcome) == self.connection # NoHandle /\ outcome # "close raises"

\* an execute_query that tests nothing before it runs the statement
AlwaysActive(self) == FALSE

\* "if not self.is_connected or not self.connection" of execute_query
NoActiveConnection(self) == ~self.is_connected \/ self.connection = NoHandle

\* {"data": results, "columns": columns, "row_count": len(results)}
QueryResult == [t |-> "dict", row_count |-> 1]

\* SnowflakeConnection.execute_query(query): the statement raises or not
\* (self.connection.cursor() raises on None, before any statement is sent)
execute_query(self, logs, raises) ==
  IF NoActiveConnection(self)
  THEN Call(self, add_log(logs, "Error", "ERROR"), PyNone, NoHandle, 0)
  ELSE IF self.connection = NoHandle
  THEN Call(self, handle_exception(logs), PyNone, NoHandle, 0)
  ELSE IF raises
  THEN Call(self, handle_exception(logs), PyNone, self.connection, 1)
  ELSE Call(self, add_log(logs, "Query", "INFO"), QueryResult, self.connection, 1)

\* the test of lines 225-227, at the time now
CacheValid(self, now) ==
  /\ self._context_cache.t # "NoneType"
  /\ self._cache_timestamp.t # "NoneType"
  /\ now - self._cache_timestamp.seconds < _cache_ttl

\* an except branch that keeps the error record as the cached context
ContextFailureCached(self, logs, now, failed) ==
  Call([self EXCEPT !._context_cache = ErrorRecord("Error en database context retrieval"),
                    !._cache_timestamp = Timestamp(now)],
       handle_exception(logs), ErrorRecord("Error en database context retrieval"),
       self.connection, failed)

\* the except branch of get_database_context, the statement of rank failed
\* having raised
ContextFailure(self, logs, now, failed) ==
  Call(self, handle_exception(logs), ErrorRecord("Error en database context retrieval"),
       self.connection, failed)

\* lines 235-281: the metadata statements, of which the one of rank failed
\* raises (none of them when failed is 0)
ContextTry(self, logs, now, failed) ==
  IF failed = 0
  THEN Call([self EXCEPT !._context_cache = SessionContext(self.connection),
                         !._cache_timestamp = Timestamp(now)],
            add_log(logs, "Database Context", "INFO"),
            SessionContext(self.connection), self.connection, MetadataQueries)
  ELSE ContextFailure(self, logs, now, failed)

\* SnowflakeConnection.get_database_context()
get_database_context(self, logs, now, failed) ==
  IF ~self.is_connected
  THEN Call(self, logs, ErrorRecord("Not connected to Snowflake"), NoHandle, 0)
  ELSE IF CacheValid(self, now)
  THEN Call(self, add_log(logs, "Cache Hit", "INFO"), self._context_cache, NoHandle, 0)
  ELSE ContextTry(self, logs, now, failed)

\* what a call on the connection leaves alone
outside_connection == <<agent_vars, tr_vars, ob_vars, cl_vars, mat_vars, chat_vars>>

ConnInit ==
  /\ db_conn = SnowflakeConnection
  /\ log_manager = <<>>
  /\ clock = 0
  /\ sessions = <<>>
  /\ last_call = [op |-> "__init__", ret |-> PyNone, handle |-> NoHandle, queries |-> 0,
                  at |-> 0, completed |-> TRUE]

\* what a call of a method leaves in db_conn, log_manager and last_call
Called(op, call, completed) ==
  /\ db_conn' = call.self
  /\ log_manager' = call.logs
  /\ last_call' = [op |-> op, ret |-> call.ret, handle |-> call.handle,
                   queries |-> call.queries, at |-> clock, completed |-> completed]

\* db_conn.connect()
Connect(outcome) ==
  /\ Len(sessions) < MaxConnections
  /\ Len(log_manager) < MaxLogs
  /\ Called("connect", connect(db_conn, log_manager, outcome, Len(sessions) + 1),
            outcome = "ok")
  /\ sessions' = IF OpensSession(outcome) THEN Append(sessions, "open") ELSE sessions
  /\ UNCHANGED clock
  /\ UNCHANGED outside_connection

\* db_conn.disconnect()
Disconnect(outcome) ==
  /\ Len(log_manager) < MaxLogs
  /\ DisconnectMeets(db_conn, outcome)
  /\ Called("disconnect", disconnect(db_conn, log_manager, outcome),
            DisconnectCompleted(db_conn, outcome))
  /\ sessions' = IF ClosesSession(db_conn, outcome)
                 THEN [sessions EXCEPT ![db_conn.connection] = "closed"]
                 ELSE sessions
  /\ UNCHANGED clock
  /\ UNCHANGED outside_connection

\* the session behind the object's handle takes statements
SessionOpen == db_conn.connection # NoHandle /\ sessions[db_conn.connection] = "open"

\* db_conn.execute_query(query): a statement sent to a closed session raises
ExecuteQuery(raises) ==
  /\ Len(log_manager) < MaxLogs
  /\ raises \/ SessionOpen
  /\ Called("execute_query", execute_query(db_conn, log_manager, raises), ~raises)
  /\ UNCHANGED <<clock, sessions>>
  /\ UNCHANGED outside_connection

\* db_conn.get_database_context()
GetDatabaseContext(failed) ==
  /\ Len(log_manager) < MaxLogs
  /\ failed # 0 \/ SessionOpen \/ ~db_conn.is_connected \/ CacheValid(db_conn, clock)
  /\ Called("get_database_context",
            get_database_context(db_conn, log_manager, clock, failed), failed = 0)
  /\ UNCHANGED <<clock, sessions>>
  /\ UNCHANGED outside_connection

\* time passes
Tick ==
  /\ clock < MaxTicks * TickSeconds
  /\ clock' = clock + TickSeconds
  /\ UNCHANGED <<db_conn, log_manager, sessions, last_call>>
  /\ UNCHANGED outside_connection

ConnectionNext ==
  \/ \E outcome \in ConnectOutcomes : Connect(outcome)
  \/ \E outcome \in DisconnectOutcomes : Disconnect(outcome)
  \/ \E raises \in BOOLEAN : ExecuteQuery(raises)
  \/ \E failed \in 0..MetadataQueries : GetDatabaseContext(failed)
  \/ Tick

(***************************************************************************)
(* streamlit_app.py: the chat.  messages is st.session_state.messages,     *)
(* agent tells whether st.session_state.agent is set and db_connection     *)
(* whether st.session_state.db_connection is; the processing log is        *)
(* processing_logs, the one log_step of the agent writes to.               *)
(***************************************************************************)
MaxInputs == 2

\* the keyword lists of is_database_query
db_keywords ==
  {"table", "data", "query", "how many", "show", "list", "display", "region",
   "customer", "sale", "average", "sum", "total", "count", "select",
   "database", "schema", "records", "rows", "columns", "orders", "products",
   "categories", "revenue", "billing", "analysis", "report", "statistics",
   "maximum", "minimum", "search", "filter", "group", "sort", "top",
   "highest", "lowest", "latest", "recent", "city", "cities", "properties",
   "property", "price", "prices", "ranking", "rank", "position", "positions",
   "each", "get", "obtain", "include", "only", "dollars", "values", "value",
   "transactions", "transaction", "locations", "location", "expensive",
   "more", "less", "most", "least", "join", "inner", "left", "right",
   "where", "order by", "group by", "partition", "over", "window",
   "function", "functions", "aggregate", "aggregation", "agent", "agents",
   "owner", "owners", "buyer", "buyers", "seller", "sellers", "sales",
   "purchase", "purchases", "listing", "listings", "house", "houses",
   "apartment", "apartments", "lot", "lots", "mortgage", "mortgages",
   "credit", "financing", "loan", "loans", "bedrooms", "rooms", "bathrooms",
   "meters", "m2", "feet", "sqft", "garage", "parking", "pool", "garden",
   "yard", "patio", "terrace", "county", "state", "zip code", "zipcode",
   "msa", "zone", "neighborhood", "appraisal", "valuation", "tax", "taxes",
   "commission", "commissions", "offer", "offers", "closing", "closings",
   "deed", "inspection", "evaluation", "market", "trend", "trends", "growth",
   "profitability", "roi", "investment", "investments", "portfolio"}

off_topic_keywords ==
  {"weather", "climate", "news", "recipe", "translate language",
   "how are you", "hello", "joke", "personal story", "movie", "music",
   "sport", "politics", "personal health", "medicine", "travel",
   "restaurant", "buy clothes", "personal schedule", "postal address",
   "personal phone", "personal email", "schedule appointment"}

help_keywords ==
  {"help", "what can you do", "how does it work", "what do you do",
   "what are you for", "how to use", "instructions", "commands", "examples",
   "capabilities", "functions"}

\* len(user_input.split())
WordCount(user_input) ==
  Cardinality({i \in 1..Len(user_input) :
                 /\ ~IsSpace(Ch(user_input, i))
                 /\ (i = 1 \/ IsSpace(Ch(user_input, i - 1)))})

\* any(keyword in user_input_lower for keyword in keywords)
HasKeyword(user_input_lower, keywords) ==
  \E keyword \in keywords : Contains(user_input_lower, keyword)

\* is_database_query(user_input), user_input_lower being its lowered text;
\* every path of lines 168-182 returns "database"
QueryTypeOf(user_input, user_input_lower) ==
  IF HasKeyword(user_input_lower, help_keywords) THEN "help"
  ELSE IF HasKeyword(user_input_lower, off_topic_keywords) THEN "off_topic"
  ELSE IF HasKeyword(user_input_lower, db_keywords) THEN "database"
  ELSE IF WordCount(user_input) < 3 THEN "unclear"
  ELSE "database"

is_database_query(user_input) == QueryTypeOf(user_input, Lower(user_input))

\* get_help_response()["message"] and get_redirect_response()["message"],
\* by their first sentence
HelpMessage == "Hello! I'm your NLP assistant for real estate queries in Snowflake."
RedirectMessage == "I'm an assistant specialized in Snowflake database queries."

\* pd.DataFrame()
EmptyDataFrame == Frame(<<>>, <<>>)

\* {"role": "user", "content": prompt}
UserMessageOf(prompt) == [role |-> "user", content |-> prompt]

\* _append_assistant_message(content, df)
_append_assistant_message(history, content, df) ==
  Append(history, [role |-> "assistant", content |-> content, data |-> df])

\* result.get(key, default)
ResultGet(result, key, default) == IF key \in DOMAIN result THEN result[key] ELSE default

\* not value
Falsy(value) ==
  \/ value.t = "NoneType"
  \/ value.t = "str" /\ value.v = ""
  \/ value.t \in {"list", "tuple"} /\ value.items = <<>>

\* the try block of _render_successful_result and its except branch:
\* formatted is what format_sql_result_to_dataframe did, rendered tells
\* whether st.dataframe and st.caption went through
RenderTable(history, result, formatted, rendered) ==
  IF formatted.out = "return" /\ rendered
  THEN _append_assistant_message(history, "Query executed successfully:", formatted.df)
  ELSE _append_assistant_message(history,
         "Query executed successfully:\n" \o ValueStr(result.result), EmptyDataFrame)

\* _render_successful_result(result, prompt)
_render_successful_result(history, result, prompt, rendered) ==
  IF Falsy(ResultGet(result, "result", PyNone))
  THEN _append_assistant_message(history, "No results found.", EmptyDataFrame)
  ELSE RenderTable(history, result,
                   format_sql_result_to_dataframe(result.result,
                                                  ResultGet(result, "sql_query", ""), prompt),
                   rendered)

\* an error shown on the page and not kept in the history
RenderErrorOnly(history, result) == history

\* _render_error_result(result), for a dict: the user-friendly branch and
\* the legacy one
_render_error_result(history, result) ==
  IF ResultGet(result, "user_friendly", FALSE)
  THEN _append_assistant_message(history, ResultGet(result, "error", "Unknown error"),
                                 EmptyDataFrame)
  ELSE _append_assistant_message(history, ResultGet(result, "error", "Unknown error"),
                                 EmptyDataFrame)

\* the record process_user_input renders without an agent
NoAgentError ==
  [success |-> FALSE, error |-> "Error: No agent initialized. Please check your connection.",
   user_friendly |-> TRUE]

\* "SHOW TABLES" in sql_q and isinstance(result.get("result"), list)
IsShowTables(result) ==
  /\ Contains(Upper(ResultGet(result, "sql_query", "")), "SHOW TABLES")
  /\ ResultGet(result, "result", PyNone).t = "list"

\* [row[1] for row in result["result"] if isinstance(row, (list, tuple)) and len(row) > 1],
\* as the rows of pd.DataFrame({"Tables": tables})
RECURSIVE TableRows(_)
TableRows(rows) ==
  IF rows = <<>> THEN <<>>
  ELSE (IF IsRow(rows[1]) /\ Len(rows[1].items) > 1 THEN << <<rows[1].items[2]>> >> ELSE <<>>)
         \o TableRows(Tail(rows))

\* lines 1045-1059: what process_user_input does with the record of
\* process_query
RenderResult(history, result, prompt, rendered) ==
  IF IsShowTables(result)
  THEN _append_assistant_message(history, "Query executed successfully:",
                                 Frame(<<"Tables">>, TableRows(result.result.items)))
  ELSE IF ResultGet(result, "success", FALSE)
  THEN _render_successful_result(history, result, prompt, rendered)
  ELSE _render_error_result(history, result)

\* the prompts of the chat, and is_database_query(prompt) for each
Prompts == {"help", "what is the weather", "Show Tables", "list all properties"}

QueryTypes == [prompt \in Prompts |-> is_database_query(prompt)]

\* process_user_input reaches the agent for a prompt of this type
ReachesAgent(query_type, has_agent) == query_type \notin {"help", "off_topic"} /\ has_agent

\* lines 1015-1059: the assistant's block
Respond(history, prompt, query_type, has_agent, result, rendered) ==
  IF query_type = "help"
  THEN _append_assistant_message(history, HelpMessage, EmptyDataFrame)
  ELSE IF query_type = "off_topic"
  THEN _append_assistant_message(history, RedirectMessage, EmptyDataFrame)
  ELSE IF ~has_agent
  THEN _render_error_result(history, NoAgentError)
  ELSE RenderResult(history, result, prompt, rendered)

\* process_user_input(prompt), the agent returning result
process_user_input(history, prompt, has_agent, result, rendered) ==
  Respond(Append(history, UserMessageOf(prompt)), prompt, QueryTypes[prompt],
          has_agent, result, rendered)

(***************************************************************************)
(* The environment of the chat: the runs of process_query (the record it   *)
(* returns and the steps it logs after its first one).                     *)
(***************************************************************************)
Run(result, steps) == [result |-> result, steps |-> steps]

Step(step_name, content) == [step |-> step_name, content |-> content]

TableListText == "[('PROPERTIES', 'BASE TABLE')]"

\* the runs of a table listing question: _handle_metadata_query returns the
\* tables or its failure record
MetadataRuns ==
  {Run([success |-> TRUE, result |-> PyText(TableListText), sql_query |-> clean_sql,
        query_type |-> "metadata", direct_handling |-> TRUE],
       <<Step("Metadata Query Detected", "Handling table list directly"),
         Step("Direct SQL", clean_sql),
         Step("Tables retrieved", "30 tables found")>>),
   Run(MetadataFailure("Connection reset by peer"),
       <<Step("Metadata Query Detected", "Handling table list directly"),
         Step("Direct SQL", clean_sql),
         Step("Error in direct metadata query", "Connection reset by peer")>>)}

\* the steps of a statement handed to the executor
ExecutionSteps(sql) ==
  <<Step("Generated SQL query", sql), Step("SQL generated", sql), Step("Executing SQL", sql)>>

\* a run that ends with rows
SuccessRun(sql, rows, length) ==
  Run([success |-> TRUE, result |-> rows, sql_query |-> sql, intermediate_steps |-> <<>>],
      Append(ExecutionSteps(sql), Step("Results obtained", length \o " rows")))

\* a run the executor ends with an error
SqlErrorRun(sql, error_str) ==
  Run(handle_sql_error(error_str, sql),
      ExecutionSteps(sql)
        \o <<Step("Error executing SQL", "Error: " \o error_str),
             Step("User-Friendly Error", UserMessage(error_str))>>)

\* the runs of the other questions: rows as text, an empty text, a list of
\* tables, an executor error, the "no data" failure and the failure of the
\* outer except branch
ChainRuns ==
  {SuccessRun(PlainSelect, PyText(RowsText), "13"),
   SuccessRun(PlainSelect, PyText(""), "0"),
   SuccessRun("SHOW TABLES",
              PyList(<<PyTuple(<<PyText("2024-01-01"), PyText("PROPERTIES")>>),
                       PyTuple(<<PyText("2024-01-01"), PyText("AGENTS")>>)>>), "2"),
   SqlErrorRun(PlainSelect, "Connection reset by peer"),
   Run([success |-> FALSE, error |-> NoDataMessage, sql_query |-> PlainSelect,
        user_friendly |-> TRUE],
       <<Step("Generated SQL query", PlainSelect),
         Step("No data results", "Query generated but no data obtained")>>),
   Run([success |-> FALSE, error |-> "LLM provider unavailable", result |-> PyNone],
       <<Step("Error in query processing", "LLM provider unavailable")>>)}

AgentRuns(prompt) == IF IsTableListing(prompt) THEN MetadataRuns ELSE ChainRuns


\* st.dataframe and st.caption are called for a success with a result that
\* is not a list of SHOW TABLES, and may raise
Renderings(result) ==
  IF ResultGet(result, "success", FALSE) /\ ~IsShowTables(result)
       /\ ~Falsy(ResultGet(result, "result", PyNone))
  THEN BOOLEAN
  ELSE {TRUE}

ChatInit ==
  /\ messages = <<>>
  /\ agent = FALSE
  /\ db_connection = FALSE

\* what an action of the chat leaves alone
outside_chat ==
  <<pc, agent_locals, ret, propagated, llm_calls, db_calls, tr_vars, ob_vars, cl_vars, mat_vars>>

\* main(), lines 1093-1114: without a connection in the session a new
\* SnowflakeConnection connects, and the agent is made when it did
StartUp(outcome, llm_ready) ==
  /\ ~db_connection
  /\ Len(sessions) < MaxConnections
  /\ Len(log_manager) < MaxLogs
  /\ Called("connect", connect(SnowflakeConnection, log_manager, outcome, Len(sessions) + 1),
            outcome = "ok")
  /\ sessions' = IF OpensSession(outcome) THEN Append(sessions, "open") ELSE sessions
  /\ db_connection' = (outcome = "ok")
  /\ agent' = (outcome = "ok" /\ llm_ready)
  /\ UNCHANGED <<messages, processing_logs, clock>>
  /\ UNCHANGED outside_chat

\* the steps process_query logs in a run
RunSteps(prompt, run) == <<Step("Processing query", prompt)>> \o run.steps

\* process_user_input(prompt), called by main() with a connection in the
\* session
ProcessUserInput(prompt, run, rendered) ==
  /\ db_connection
  /\ Len(messages) < 2 * MaxInputs
  /\ messages' = process_user_input(messages, prompt, agent, run.result, rendered)
  /\ processing_logs' = IF ReachesAgent(QueryTypes[prompt], agent)
                        THEN processing_logs \o RunSteps(prompt, run)
                        ELSE processing_logs
  /\ UNCHANGED <<agent, db_connection, conn_vars>>
  /\ UNCHANGED outside_chat

\* the button Clear History of setup_sidebar
ClearHistory ==
  /\ db_connection
  /\ messages' = <<>>
  /\ processing_logs' = <<>>
  /\ UNCHANGED <<agent, db_connection, conn_vars>>
  /\ UNCHANGED outside_chat

ChatNext ==
  \/ \E outcome \in ConnectOutcomes, llm_ready \in BOOLEAN : StartUp(outcome, llm_ready)
  \/ \E prompt \in Prompts : \E run \in AgentRuns(prompt) :
       \E rendered \in Renderings(run.result) : ProcessUserInput(prompt, run, rendered)
  \/ ClearHistory

(***************************************************************************)
(* Specifications: Spec is one call of process_query, SpecTranslate is a   *)
(* call of the validator or a round trip through the two translators,      *)
(* SpecClean is the cleaning of a completion, SpecMaterialize a call of    *)
(* format_sql_result_to_dataframe, SpecConnection the calls of the methods  *)
(* of a SnowflakeConnection as time passes, SpecSession the chat of the     *)
(* application.                                                            *)
(***************************************************************************)
vars == <<agent_vars, tr_vars, ob_vars, cl_vars, mat_vars, conn_vars, chat_vars>>

Init == AgentInit /\ TrInit /\ CleanInit /\ MaterializeInit /\ ConnInit /\ ChatInit

Next == AgentNext

Spec == Init /\ [][Next]_vars

SpecTranslate == Init /\ [][TranslateNext]_vars

SpecClean == Init /\ [][CleanNext]_vars

SpecMaterialize == Init /\ [][MaterializeNext]_vars

SpecConnection == Init /\ [][ConnectionNext]_vars

SpecSession == Init /\ [][ChatNext]_vars

(***************************************************************************)
(* Properties of process_query (specification Spec).                       *)
(***************************************************************************)
\* the call is over / the chain answered / the executor calls that raised
Finished == pc = "done"
ChainAnswered == llm_calls # <<>> /\ ~llm_calls[1].raised
LastCall == db_calls[Len(db_calls)]

\* the first keyword of a text: its leading run of word characters
FirstKeyword(text) ==
  LET stops == {i \in 1..Len(text) : ~IsWordChar(Ch(text, i))}
  IN  IF stops = {} THEN text ELSE SubSeq(text, 1, Min(stops) - 1)

\* the record is the "no data" failure of lines 376-385
NoDataFailure == Finished /\ "error" \in DOMAIN ret /\ ret.error = NoDataMessage

\* C1: process_query is total: whatever the question, the chain and the
\* executor do, no exception leaves the call, and a call that is over has
\* returned a record whose success field is a boolean: a success record with
\* its result, or a failure record with its error.
C1_ProcessQueryTotal ==
  /\ ~propagated
  /\ ~Finished => ret = NoReturn
  /\ Finished => /\ "success" \in DOMAIN ret
                 /\ ret.success \in BOOLEAN
                 /\ ret.success => "result" \in DOMAIN ret
                 /\ ~ret.success => "error" \in DOMAIN ret

\* C1, its case: the call ended in the outer except branch (the chain raised,
\* or sql_query.upper() raised AttributeError) and returned a failure record
C1_Witness ==
  /\ Finished
  /\ db_calls = <<>>
  /\ sql_query.t = "list"
  /\ processing_logs[Len(processing_logs)].step = "Error in query processing"
  /\ ret = [success |-> FALSE, error |-> "'list' object has no attribute 'upper'", result |-> None]

\* C2: every statement that goes to the executor from LLM-produced text (the
\* primary candidate or the final answer) has SELECT, SHOW or DESCRIBE, in
\* any case, as its first keyword.
C2_ExecutionGating ==
  \A i \in 1..Len(db_calls) :
    db_calls[i].source # "metadata" =>
      Upper(FirstKeyword(db_calls[i].sql)) \in {"SELECT", "SHOW", "DESCRIBE"}

\* C3: when an executor call raised, the record returned is a failure whose
\* message is a user-facing text, marked user_friendly and other than the
\* raw error text, and which keeps the raw error text in technical_error; on
\* the primary, the final-answer and the metadata path alike.
C3_ExecutorFailureIsUserFriendly ==
  (Finished /\ db_calls # <<>> /\ LastCall.raised) =>
     /\ ~ret.success
     /\ "user_friendly" \in DOMAIN ret
     /\ ret.user_friendly
     /\ "technical_error" \in DOMAIN ret
     /\ ret.technical_error = LastCall.error
     /\ ret.error # LastCall.error

\* C4: when the executor call for the extracted statement returned, the call
\* ends in a success record that carries exactly the value the executor
\* returned, whatever its content.
C4_ExecutorSuccessIsSuccess ==
  (Finished /\ db_calls # <<>> /\ ~LastCall.raised) =>
     /\ ret.success
     /\ ret.result = LastCall.value

\* C5: when the completion holds no SQL at all (the primary candidate and
\* the final answer both clean to empty text, no step holds data, nothing
\* was executed), the call ends in a failure, never in a success that
\* carries the conversational text.
C5_NoSqlIsFailure ==
  (/\ Finished
   /\ ChainAnswered
   /\ db_calls = <<>>
   /\ sql_query.t = "str"
   /\ clean_sql_response(sql_query.v) = ""
   /\ ~Contains(Upper(sql_query.v), "SHOW TABLES")
   /\ chain.result.t = "str"
   /\ chain.result.v # ""
   /\ clean_sql_response(chain.result.v) = ""
   /\ \A i \in 1..Len(chain.intermediate_steps) :
        \A k \in 1..Len(ResultKeys) : ~HasKey(chain.intermediate_steps[i], ResultKeys[k]))
  => ~ret.success

\* C6: the "no data" failure is returned only after the final answer, when
\* it is a text, was run through clean_sql_response and, if it starts with
\* SELECT, SHOW or DESCRIBE, executed; and the final answer is consulted
\* only when the primary candidate was not executed.
C6_FallbackOrder ==
  /\ (NoDataFailure /\ chain.result.t = "str") =>
        /\ cleaned_final = Str(FinalCleaned)
        /\ FinalEligible => \E i \in 1..Len(db_calls) : db_calls[i].source = "final"
  /\ cleaned_final # None =>
        /\ ~PrimaryEligible
        /\ \A i \in 1..Len(db_calls) : db_calls[i].source = "final"

\* C7: once an executor call has raised, the call of process_query is over
\* with a failure record and no further executor call is made.
C7_NoInternalRetry ==
  /\ [](\A i \in 1..Len(db_calls) :
          db_calls[i].raised => i = Len(db_calls) /\ Finished /\ ~ret.success)
  /\ [][(db_calls # <<>> /\ LastCall.raised) => db_calls' = db_calls]_vars

\* C7, its case: the primary candidate raised while the final answer was an
\* executable statement that could have been tried next
C7_Witness ==
  /\ Finished
  /\ Len(db_calls) = 1
  /\ db_calls[1].raised
  /\ db_calls[1].source = "primary"
  /\ FinalEligible

\* C8: the sql_query of the record returned is the statement that went to
\* the executor: the one executed on success, the one attempted when the
\* executor raised.
C8_ReportedSqlIsExecuted ==
  (Finished /\ db_calls # <<>> /\ (ret.success \/ LastCall.raised)) =>
     /\ "sql_query" \in DOMAIN ret
     /\ ret.sql_query = LastCall.sql

(***************************************************************************)
(* Properties of the translators (specification SpecTranslate).            *)
(***************************************************************************)
\* a text up to case and whitespace
Normalised(text) == Strip(CollapseSpaces(Lower(text)))

\* C9: a call of translate_to_real_sql or of translate_to_obfuscated_sql in
\* which an exception was raised, after any number of replacements, returned
\* its argument unchanged.
C9_FailOpen ==
  \A i \in 1..Len(tr_calls) : tr_calls[i].raised => tr_calls[i].ret = tr_calls[i].arg

\* C9, its case: translate_to_obfuscated_sql raised after replacements had
\* changed its working copy
C9_Witness ==
  /\ Len(tr_calls) = 2
  /\ tr_calls[2].fn = "translate_to_obfuscated_sql"
  /\ tr_calls[2].raised
  /\ tr_calls[2].working # tr_calls[2].arg

\* C10: for SQL written with obfuscated names only,
\* translate_to_obfuscated_sql(translate_to_real_sql(s)) is s up to case and
\* whitespace.
C10_RoundTrip ==
  (Len(tr_calls) = 2 /\ ~tr_calls[2].raised) =>
     Normalised(tr_calls[2].ret) = Normalised(tr_calls[1].arg)

(***************************************************************************)
(* Properties of the mappings, of translate_to_real_sql and of the         *)
(* validator (specification SpecTranslate).                                *)
(***************************************************************************)
\* no two entries of a mapping share their key, and none share their value
OneToOne(m) ==
  \A i, j \in 1..Len(m) : i # j => (m[i][1] # m[j][1] /\ m[i][2] # m[j][2])

\* rev has as many entries as fwd, and holds each entry of fwd swapped
IsInverse(fwd, rev) ==
  /\ Len(rev) = Len(fwd)
  /\ \A i \in 1..Len(fwd) : \E j \in 1..Len(rev) : rev[j] = <<fwd[i][2], fwd[i][1]>>

ReversingTwiceIsIdentity ==
  /\ Reversed(Reversed(TABLE_MAPPING)) = TABLE_MAPPING
  /\ Reversed(Reversed(COLUMN_MAPPING)) = COLUMN_MAPPING

\* C11: the table mapping and the column mapping are one-to-one, each
\* reverse mapping has as many entries as its forward mapping and holds its
\* pairs swapped, reversing twice gives the original, and the four mappings
\* are, after any translator or validator operation, what they were at
\* process start.
C11_MappingIsBijectionAndImmutable ==
  /\ mappings = ClassAttributes
  /\ OneToOne(mappings.TABLE_MAPPING)
  /\ OneToOne(mappings.COLUMN_MAPPING)
  /\ IsInverse(mappings.TABLE_MAPPING, mappings.REVERSE_TABLE_MAPPING)
  /\ IsInverse(mappings.COLUMN_MAPPING, mappings.REVERSE_COLUMN_MAPPING)
  /\ ReversingTwiceIsIdentity

\* C11, its case: both translators ran to their end and rewrote their text
C11_Witness ==
  /\ Len(tr_calls) = 2
  /\ ~tr_calls[2].raised
  /\ tr_calls[1].ret # tr_calls[1].arg
  /\ tr_calls[2].ret # tr_calls[2].arg

\* each text of ObfuscatedSql with the text that names the paired real
\* identifiers in its place
SqlPairs ==
  {<<"SELECT " \o ColumnPart(COLUMN_MAPPING[i][2]) \o " FROM " \o TablePart(COLUMN_MAPPING[i][2]),
     "SELECT " \o ColumnPart(COLUMN_MAPPING[i][1]) \o " FROM " \o TablePart(COLUMN_MAPPING[i][1])>> :
     i \in 1..Len(COLUMN_MAPPING)}
  \cup {<<"SELECT " \o COLUMN_MAPPING[i][2] \o " FROM " \o TablePart(COLUMN_MAPPING[i][2]),
          "SELECT " \o COLUMN_MAPPING[i][1] \o " FROM " \o TablePart(COLUMN_MAPPING[i][1])>> :
          i \in 1..Len(COLUMN_MAPPING)}
  \cup {<<"SELECT * FROM " \o Upper(TABLE_MAPPING[i][2]), "SELECT * FROM " \o TABLE_MAPPING[i][1]>> :
          i \in 1..Len(TABLE_MAPPING)}
  \cup {<<"", "">>}

\* C12: translate_to_real_sql, when nothing raises, turns SQL written with
\* obfuscated names into the same SQL with each table and each column
\* (qualified or bare) replaced by the real name paired with it, all other
\* text unchanged.
C12_TranslatesToPairedRealNames ==
  \A i \in 1..Len(tr_calls) :
    (tr_calls[i].fn = "translate_to_real_sql" /\ ~tr_calls[i].raised) =>
      \A pair \in SqlPairs : pair[1] = tr_calls[i].arg => tr_calls[i].ret = pair[2]

\* C13: validate_obfuscated_sql reports exactly the real table names and
\* the distinctive real column names that the text holds as whole words, in
\* any case, all of them and nothing else, and is_valid tells that the list
\* of violations is empty.
C13_ValidatorReportsAll ==
  \A n \in 1..Len(validations) :
    LET v        == validations[n]
        low      == Lower(v.sql)
        reported == {v.violations[k] : k \in 1..Len(v.violations)}
        tables   == {"Real table name found: " \o TABLE_MAPPING[i][1] :
                       i \in {i \in 1..Len(TABLE_MAPPING) : ReSearchWord(low, TABLE_MAPPING[i][1])}}
        columns  == {"Real column name found: " \o distinctive_columns[i] :
                       i \in {i \in 1..Len(distinctive_columns) :
                                ReSearchWord(low, distinctive_columns[i])}}
    IN  /\ reported = tables \cup columns
        /\ v.is_valid = (v.violations = <<>>)

\* C13, its case: a text that holds two real tables and two distinctive real
\* columns was validated
C13_Witness ==
  /\ validations # <<>>
  /\ ~validations[1].is_valid
  /\ \E i, j, k, l \in 1..Len(validations[1].violations) :
       /\ validations[1].violations[i] = "Real table name found: properties"
       /\ validations[1].violations[j] = "Real table name found: transactions"
       /\ validations[1].violations[k] = "Real column name found: property_id"
       /\ validations[1].violations[l] = "Real column name found: location_id"

(***************************************************************************)
(* Properties of clean_sql_response (specification SpecClean).             *)
(***************************************************************************)
\* the completion was cleaned / the text returned was cleaned again
Cleaned == cleanings # <<>>
CleanedTwice == Len(cleanings) >= 2

\* a text on one line: trimmed, every run of whitespace one space
OneLine(text) == CollapseSpaces(Strip(text))

\* the text begins with one of the keywords a statement starts with
BeginsWithKeyword(text) == \E kw \in LineStartKeywords : StartsWith(Upper(text), kw)

\* a statement without fences and backticks, handed over as it is or with
\* whitespace around it
PlainStatement ==
  /\ completion.wrapper \in {"bare", "padded"}
  /\ completion.statement \in SqlStatements
  /\ ~Contains(completion.text, BT)

\* the completion is a statement wrapped in one fenced code block
FencedStatement ==
  /\ completion.wrapper \in {"fence", "fence sql", "fence SQL", "fence mysql", "fence oracle",
                            "inline fence", "inline fence sql"}
  /\ completion.statement \in SqlStatements

\* C14: whatever the text, the text clean_sql_response returns holds no
\* backtick (hence no fence), and is empty or begins with one of the
\* recognized SQL keywords.
C14_CleanedIsCandidateSql ==
  \A i \in 1..Len(cleanings) :
    /\ ~Contains(cleanings[i], BT)
    /\ cleanings[i] = "" \/ BeginsWithKeyword(cleanings[i])

\* C15: a statement without fences and backticks passes through
\* clean_sql_response with every token kept, in order and unaltered: the text
\* returned is the statement on one line, also when the statement spans
\* several lines of which some carry no SQL keyword.
C15_PlainStatementPassesThrough ==
  (Cleaned /\ PlainStatement) => cleanings[1] = OneLine(completion.statement)

\* C16: for a text free of fences and backticks, cleaning the text that
\* clean_sql_response returned returns that text again.
C16_CleaningIsIdempotent ==
  (CleanedTwice /\ ~Contains(completion.text, BT)) => cleanings[2] = cleanings[1]

\* C16, its case: a text without backticks that the first cleaning changed
\* (it dropped a line and joined the others) was cleaned a second time
C16_Witness ==
  /\ CleanedTwice
  /\ ~Contains(completion.text, BT)
  /\ completion.statement = "SELECT\n  city\nFROM locations"
  /\ cleanings[1] # completion.text
  /\ cleanings[1] # ""

\* C17: when the trimmed completion is a statement wrapped in a fenced code
\* block, with the tag sql or without a tag, clean_sql_response returns the
\* statement alone: no delimiter, no tag, every token of the statement.
C17_FenceStripping ==
  (Cleaned /\ FencedStatement) => cleanings[1] = OneLine(completion.statement)

(***************************************************************************)
(* Properties of format_sql_result_to_dataframe (specification             *)
(* SpecMaterialize).                                                       *)
(***************************************************************************)
\* the call was made / the DataFrame it returned
Materialized == request.made
Table == returned.df

\* the data the rules after the first work on
RequestData == ParsedData(request.data)

\* a DataFrame of one row and one column, labelled Result, holding the value
SingleResultCell(value) ==
  /\ Table.columns = <<"Result">>
  /\ Table.rows = <<<<value>>>>

\* the call ended in one of the two last except branches: every attempt to
\* build a table from the rows raised
Degraded == returned.site \in {"result cell", "error cell"}

\* C18: format_sql_result_to_dataframe never raises, whatever the raw result
\* (typed rows, stringified rows, rows of differing lengths, a scalar, None)
\* and the SQL and question texts; when no table can be built from the
\* result it returns a table of one cell, labelled Result, that holds the
\* result as a text.
C18_MaterializerTotal ==
  Materialized =>
    /\ returned.out = "return"
    /\ ~Table.raised
    /\ Degraded => SingleResultCell(PyText(ValueStr(RequestData)))

C20_BoundaryResults ==
  /\ (Materialized /\ request.data = PyList(<<>>)) => SingleResultCell(PyText("No data"))
  /\ (Materialized /\ request.data = PyText("")) => SingleResultCell(PyText(""))

\* C20, its case: the empty list was materialized for a COUNT query and a
\* question that asks how many
C20_Witness ==
  /\ Materialized
  /\ request.data = PyList(<<>>)
  /\ request.sql_query = "SELECT COUNT(*) FROM properties"
  /\ request.user_question = "how many properties are there"
  /\ returned.site = "no data"

\* the texts of the cells of the table, row by row
ShownRows ==
  [r \in 1..Len(Table.rows) |-> [i \in 1..Len(Table.rows[r]) |-> ValueStr(Table.rows[r][i])]]

\* the stringified rows of Scenario B
DecimalRowsText == PyText("[(1, Decimal('500000.00')), (2, Decimal('750000.00'))]")

\* the labels of the select list of a SQL text of the model: the name of
\* each selected column, its words capitalised and separated by a space
SelectListLabels(sql_text) ==
  CASE sql_text = "SELECT property_id, price FROM properties" -> <<"Property Id", "Price">>
    [] sql_text = "SELECT city, price FROM properties ORDER BY price DESC" -> <<"City", "Price">>
    [] OTHER -> <<>>

\* the data is a list, not empty, of tuples or lists of one length
UniformRows(data) ==
  /\ data.t = "list"
  /\ data.items # <<>>
  /\ \A r \in 1..Len(data.items) :
       IsRow(data.items[r]) /\ Len(data.items[r].items) = Len(data.items[1].items)

\* C21: the text "[(1, Decimal('500000.00')), (2, Decimal('750000.00'))]"
\* with the SQL 'SELECT property_id, price FROM properties' gives the two
\* rows (1, "$500,000.00") and (2, "$750,000.00") under the columns
\* "Property Id" and "Price"; and whenever the select list has as many
\* columns as the rows have values, the columns are named after it.
C21_DecimalRowsShapedFromSql ==
  /\ (/\ Materialized
      /\ request.data = DecimalRowsText
      /\ request.sql_query = "SELECT property_id, price FROM properties")
     => /\ Table.columns = <<"Property Id", "Price">>
        /\ ShownRows = << <<"1", "$500,000.00">>, <<"2", "$750,000.00">> >>
  /\ (/\ Materialized
      /\ UniformRows(RequestData)
      /\ Len(SelectListLabels(request.sql_query)) = Len(RequestData.items[1].items))
     => Table.columns = SelectListLabels(request.sql_query)

\* the result is one row of one number
OneCount(data) ==
  /\ UniformRows(data)
  /\ Len(data.items) = 1
  /\ Len(data.items[1].items) = 1
  /\ data.items[1].items[1].t = "int"

\* the description of a count, by the first of the words table, customer,
\* order, sale the question holds
CountLabel(question) ==
  IF Contains(Lower(question), "table") THEN "Total tables in database"
  ELSE IF Contains(Lower(question), "customer") THEN "Total customers"
  ELSE IF Contains(Lower(question), "order") THEN "Total orders"
  ELSE IF Contains(Lower(question), "sale") THEN "Total sales"
  ELSE "Total records"

\* C22: when the SQL text holds COUNT(*) and the result is one row of one
\* value, the table is one row under the columns Description and Count: the
\* description chosen by the question, the count with thousands separators
\* ([(42,)] asked with 'how many properties are there' gives "Total
\* records" and "42"); and the COUNT rule does not return for a list that
\* is not one row of one value.
C22_CountRule ==
  /\ (/\ Materialized
      /\ Contains(Upper(request.sql_query), "COUNT(*)")
      /\ OneCount(RequestData))
     => /\ Table.columns = <<"Description", "Count">>
        /\ ShownRows = << <<CountLabel(request.user_question),
                            GroupedCount(RequestData.items[1].items[1])>> >>
  /\ (/\ Materialized
      /\ request.data = PyList(<<PyTuple(<<PyInt("42")>>)>>)
      /\ request.sql_query = "SELECT COUNT(*) FROM properties"
      /\ request.user_question = "how many properties are there")
     => ShownRows = << <<"Total records", "42">> >>
  /\ (/\ Materialized
      /\ RequestData.t = "list"
      /\ RequestData.items # <<>>
      /\ ~(Len(RequestData.items) = 1 /\ HasLen(RequestData.items[1])
                                      /\ ValueLen(RequestData.items[1]) = 1))
     => returned.site # "count"

\* the SQL text belongs to the COUNT, CURRENT_DATABASE or table listing rule
MetadataSql(sql_text) ==
  \/ Contains(Upper(sql_text), "COUNT(*)")
  \/ Contains(Upper(sql_text), "CURRENT_DATABASE")
  \/ Contains(Upper(sql_text), "CURRENT_SCHEMA")
  \/ Contains(Upper(sql_text), "SHOW TABLES")
  \/ Contains(Upper(sql_text), "INFORMATION_SCHEMA.TABLES")

\* the generic names of n columns, written with a space or an underscore
PositionalNames(n, separator) == [i \in 1..n |-> "Column" \o separator \o IntStr(i)]

\* C23: for a list, not empty, of rows of one length whose SQL belongs to
\* none of the COUNT, CURRENT_DATABASE and table listing rules, the table
\* has a row for every row of the result and a column for every value of a
\* row, named after the select list or else Column 1, Column 2, ... (the
\* spelling Column_1 is taken as the same name).
C23_DirectTable ==
  (/\ Materialized
   /\ UniformRows(RequestData)
   /\ ~MetadataSql(request.sql_query))
  => /\ Len(Table.rows) = Len(RequestData.items)
     /\ Len(Table.columns) = Len(RequestData.items[1].items)
     /\ Table.columns \in {SelectListLabels(request.sql_query),
                           PositionalNames(Len(Table.columns), " "),
                           PositionalNames(Len(Table.columns), "_")}

(***************************************************************************)
(* Direct metadata handling and the classification of executor errors.     *)
(***************************************************************************)
\* the phrases of a request for the list of tables
ListingPhrases ==
  {"show tables", "show me tables", "show all tables", "show me all tables",
   "list tables", "list all tables", "what tables", "which tables",
   "display tables", "get tables", "tables list"}

\* the lower-cased question holds one of the phrases
AsksForTables == \E phrase \in ListingPhrases : Contains(Lower(user_question), phrase)

\* process_query is past its metadata check
PastMetadataCheck == pc \notin {"idle", "metadata_check"}

ErrorKind(text) ==
  IF Contains(text, "does not exist") \/ Contains(text, "not authorized") THEN "not_found"
  ELSE IF Contains(text, "SQL compilation error") THEN "compilation"
  ELSE IF Contains(Lower(text), "connection") THEN "connection"
  ELSE IF Contains(Lower(text), "timeout") THEN "timeout"
  ELSE "unknown"

\* the kind a user message tells
MessageKind(message) ==
  IF StartsWith(message, "The table '") \/ StartsWith(message, "The requested table")
  THEN "not_found"
  ELSE IF StartsWith(message, "There was an error in the SQL query") THEN "compilation"
  ELSE IF StartsWith(message, "Database connection error") THEN "connection"
  ELSE IF StartsWith(message, "The query took too long") THEN "timeout"
  ELSE IF StartsWith(message, "Database error: ") THEN "unknown"
  ELSE "none"

\* process_query returned the record of _handle_sql_error
Classified == pc = "done" /\ "technical_error" \in DOMAIN ret

\* the message of an unknown error holds at most the first 100 characters
\* of the error text
BoundedMessage(message, text) ==
  \E n \in 0..100 : \E dots \in {"", "..."} :
    /\ n <= Len(text)
    /\ message = "Database error: " \o SubSeq(text, 1, n) \o dots

\* C27: the user message of a classified error tells the first kind, in the
\* order not found or unauthorized, compilation, connection, timeout,
\* unknown, whose pattern the raw error text holds (a compilation error
\* about a missing object is a not-found); the technical field is the whole
\* text the executor raised, and the message of an unknown error holds at
\* most its first 100 characters.
C27_FirstMatchClassification ==
  Classified =>
    /\ MessageKind(ret.error) = ErrorKind(ret.technical_error)
    /\ ret.technical_error = db_calls[Len(db_calls)].error
    /\ ErrorKind(ret.technical_error) = "unknown"
         => BoundedMessage(ret.error, ret.technical_error)

C27_Witness ==
  /\ Classified
  /\ ret.technical_error = LongError
  /\ ret.error = "Database error: " \o SubSeq(LongError, 1, 100) \o "..."

(***************************************************************************)
(* Properties of a SnowflakeConnection (specification SpecConnection).     *)
(***************************************************************************)
\* the last call was get_database_context / it returned a context without
\* sending a statement / it sent every statement and returned their answers
ContextCall == last_call.op = "get_database_context"
ServedFromCache == ContextCall /\ last_call.queries = 0 /\ ~IsErrorRecord(last_call.ret)
Recomputed == ContextCall /\ last_call.queries = MetadataQueries /\ last_call.completed

\* C25: get_database_context returns a context without querying the
\* warehouse only if that context was computed on the current connection
\* less than 300 seconds before the call; otherwise (the time has elapsed,
\* or connect was called since) it sends the statements and returns, and
\* caches, what the current connection answers.
C25_CachePerConnection ==
  /\ ServedFromCache
       => /\ last_call.ret.session = db_conn.connection
          /\ last_call.at - db_conn._cache_timestamp.seconds < 300
  /\ Recomputed
       => /\ last_call.ret = SessionContext(db_conn.connection)
          /\ db_conn._context_cache = last_call.ret
          /\ db_conn._cache_timestamp = Timestamp(last_call.at)

\* the last call was execute_query / disconnect
QueryCall == last_call.op = "execute_query"
DisconnectCall == last_call.op = "disconnect"

\* C29: execute_query sends a statement only when is_connected is true and
\* a connection handle is present, and then to that handle; it returns None
\* when it sent none or the statement raised; and a disconnect whose try
\* block ran to its end leaves is_connected false and connection, engine,
\* cached context and its timestamp None.
C29_ConnectionGuard ==
  /\ [](QueryCall /\ (last_call.queries = 0 \/ ~last_call.completed)
          => last_call.ret = PyNone)
  /\ [](DisconnectCall /\ last_call.completed
          => /\ ~db_conn.is_connected
             /\ db_conn.connection = NoHandle
             /\ db_conn.engine = NoHandle
             /\ db_conn._context_cache = PyNone
             /\ db_conn._cache_timestamp = NoTimestamp)
  /\ [][(QueryCall' /\ last_call'.queries > 0)
          => /\ db_conn.is_connected
             /\ db_conn.connection # NoHandle
             /\ last_call'.handle = db_conn.connection]_vars

\* a query refused on an object that holds a handle and is not connected
C29_Witness ==
  /\ QueryCall
  /\ last_call.queries = 0
  /\ last_call.ret = PyNone
  /\ db_conn.connection # NoHandle
  /\ ~db_conn.is_connected

\* get_database_context returned an error record
ContextError == ContextCall /\ IsErrorRecord(last_call.ret)

\* the last entry of log_manager.logs is a cache hit
CacheHit ==
  ContextCall /\ log_manager # <<>> /\ log_manager[Len(log_manager)].category = "Cache Hit"

\* C30: a get_database_context that returns an error record (the object is
\* not connected, or a metadata statement raised) leaves the cached context
\* and its timestamp as they were; the cached context is never an error
\* record, and a call served from the cache never returns one.
C30_CacheNeverPoisoned ==
  /\ [](~IsErrorRecord(db_conn._context_cache))
  /\ [](CacheHit => ~IsErrorRecord(last_call.ret))
  /\ [][ContextError'
          => /\ db_conn'._context_cache = db_conn._context_cache
             /\ db_conn'._cache_timestamp = db_conn._cache_timestamp]_vars

\* a statement raised while a context computed earlier was cached
C30_Witness ==
  /\ ContextError
  /\ last_call.queries > 0
  /\ db_conn._context_cache = SessionContext(db_conn.connection)

(***************************************************************************)
(* Properties of the chat (specification SpecSession).                     *)
(***************************************************************************)
\* s is the beginning of t
IsPrefixOf(s, t) == Len(s) <= Len(t) /\ SubSeq(t, 1, Len(s)) = s

\* C24: the processing log is append-only: a step that is not a session
\* reset keeps the entries of every log in their order and adds at the end;
\* Clear History empties the processing log, and after it no entry of the
\* session before remains in a log the application keeps (the processing
\* log of the session and the logs of the log manager).
C24_LogLifecycle ==
  [][IF ClearHistory
     THEN processing_logs' = <<>> /\ log_manager' = <<>>
     ELSE /\ IsPrefixOf(processing_logs, processing_logs')
          /\ IsPrefixOf(log_manager, log_manager')]_vars

\* user, assistant, user, assistant, ...
Alternating(history) ==
  /\ Len(history) % 2 = 0
  /\ \A i \in 1..Len(history) :
       history[i].role = (IF i % 2 = 1 THEN "user" ELSE "assistant")

\* C28: a call of process_user_input adds to the history one user message,
\* the prompt, and after it one assistant message, whatever its branch; so
\* the history is always an alternating sequence of user and assistant
\* messages of even length, Clear History leaving it empty.
C28_ChatHistoryPairing ==
  /\ [](Alternating(messages))
  /\ [][messages' # messages
          => \/ messages' = <<>>
             \/ /\ Len(messages') = Len(messages) + 2
                /\ IsPrefixOf(messages, messages')
                /\ messages'[Len(messages) + 1].role = "user"
                /\ messages'[Len(messages) + 1].content \in Prompts
                /\ messages'[Len(messages) + 2].role = "assistant"]_vars

\* a table was shown, then a run without rows
C28_Witness ==
  /\ Len(messages) = 4
  /\ messages[2].data # EmptyDataFrame
  /\ messages[4].content = "No results found."

====
